---------------------------- MODULE Spec2Model ----------------------------
(***************************************************************************)
(* Model of the chunking pipeline of oncology-imaging-rag: the structure   *)
(* detector and the semantic chunker of semantic_chunking.py, the abstract *)
(* fetcher and create_text_chunks, and the LOINC and TNM processors that   *)
(* main() runs.                                                            *)
(*                                                                         *)
(* Text is a sequence of one-character strings, so that len(), split(),    *)
(* join(), strip() and startswith() are computed character by character.   *)
(* Python's None is the value None below, which is no text.                *)
(***************************************************************************)
EXTENDS Integers, Sequences, FiniteSets, TLC

VARIABLES
    \* ---- SemanticChunker.create_semantic_chunks -------------------------
    structured_elements,   \* the element list given to create_semantic_chunks
    max_chunk_size,        \* self.max_chunk_size
    i,                     \* the cursor of the outer while loop
    chunks,                \* the list being returned
    chunk_id,              \* the running id counter
    origin,                \* history: for each chunk, where it came from
    log,                   \* what create_semantic_chunks has printed or logged
    \* ---- SemanticChunker.detect_structure ------------------------------
    pages,                 \* the page list given to detect_structure
    page_idx,              \* the position of "for page in pages"
    lines,                 \* text.split('\n') of the page the loop is on
    line_idx,              \* the position of "for i, line in enumerate(lines)"
    pc,                    \* "page": between pages, "line": inside a page
    current_section,
    current_subsection,
    buffer,
    \* ---- SemanticChunker._detect_major_header ---------------------------
    input_line,            \* the line given to _detect_major_header
    header_info,           \* what it returned
    \* ---- fetch_rad_corpora.run_recommended_queries --------------------
    pubmed,                \* what PubMed answers: the ids per query, the articles
    q_idx,                 \* the position of "for name, core_term in RECOMMENDED_QUERIES"
    all_abstracts,         \* the combined list being built
    saved_queries,         \* the per-query abstracts.json files written so far
    stage,                 \* "fetch", then "process" once all_abstracts.json is written
    \* ---- process_abstracts_for_rag.create_text_chunks ------------------
    abstracts,             \* the record list given to create_text_chunks
    max_chunk_length,
    a_idx,                 \* the position of "for abstract in abstracts"
    text_chunks,           \* the list "chunks" being returned
    \* ---- main(): LOINCProcessor.process, TNMProcessor.process ----------
    processor,             \* the class whose detect_structure and chunker run
    clock,                 \* the wall clock that datetime.now() reads
    run,                   \* the number of the pipeline run in progress
    phase,                 \* the position of main() within the run
    procedures,            \* the rows of the LOINC playbook CSV
    files,                 \* the chunk files in the output directory
    history,               \* history: the chunk files as each finished run left them
    \* ---- process_rad_data_for_rag.parse_loinc_playbook ------------------
    csv_rows,              \* the rows csv.DictReader yields
    row_idx,               \* the position of "for row in reader"
    build_pc,              \* "rows": in the row loop, "returned": procedures_dict returned
    procedures_dict,       \* the dict "procedures", keyed by LOINC number
    \* ---- parse_radlex_owl and RadLexProcessor._parse_owl ----------------
    owl_classes,           \* the owl:Class elements of the OWL file
    cls_idx,               \* parse_radlex_owl: the position of "for cls in root.findall"
    terms,                 \* parse_radlex_owl: the dict "terms", keyed by RID
    owl_idx,               \* _parse_owl: the position of "for owl_class in owl_classes"
    owl_terms,             \* _parse_owl: the list "terms"
    documents,             \* create_loinc_rag_documents: the list "documents"
    \* ---- main(): the four sources and the summary -------------------------
    data_dir,              \* which input files the data directory holds
    faults,                \* the sources whose processor raises while it processes
    main_pc,               \* the block main() is at
    results,               \* the dict "results"
    summary,               \* processing_summary.json, NoSummary until it is written
    attempted,             \* history: the sources whose block was entered, in order
    \* ---- MarkdownProcessor.create_semantic_chunks ------------------------
    elements,              \* the element list parse_markdown_structure returned
    md_i,                  \* the cursor "i" of the while loop
    md_chunks,             \* the list "chunks" being returned
    md_section,            \* current_section of the markdown chunker
    md_subsection,         \* its current_subsection
    md_subsubsection       \* its current_subsubsection

chunkVars == <<max_chunk_size, i, chunks, chunk_id, origin, log>>

detectVars == <<pages, page_idx, lines, line_idx, pc, current_section, current_subsection, buffer>>

headerVars == <<input_line, header_info>>

abstractVars ==
    <<pubmed, q_idx, all_abstracts, saved_queries, stage, abstracts, max_chunk_length,
      a_idx, text_chunks>>

runVars == <<processor, clock, run, phase, procedures, files, history>>

buildVars ==
    <<csv_rows, row_idx, build_pc, procedures_dict, owl_classes, cls_idx, terms, owl_idx,
      owl_terms, documents>>

mainVars == <<data_dir, faults, main_pc, results, summary, attempted>>

mdVars == <<elements, md_i, md_chunks, md_section, md_subsection, md_subsubsection>>

vars ==
    <<structured_elements, chunkVars, detectVars, headerVars, abstractVars, runVars,
      buildVars, mainVars, mdVars>>

-----------------------------------------------------------------------------
(* Bounds of the model *)

MaxElems == 4
MinMaxChunkSize == 4
MaxMaxChunkSize == 9
MaxPages == 2
MaxTotalLines == 4
MaxGroups == 4
MaxQueries == 2
MinChunkLength == 5
MaxChunkLength == 7
MaxClock == 1
MaxRuns == 2
MaxRows == 2
MaxRunLines == 2
MaxCsvRows == 3
MaxChildren == 2
MaxClasses == 1
MaxSourceChunks == 1
MaxRecords == 2
MaxMdElems == 4

-----------------------------------------------------------------------------
(* Python values and string operations *)

None == <<"<None>">>

NL == "\n"

ParaSep == <<NL, NL>>

StartsWith(t, p) == Len(p) <= Len(t) /\ SubSeq(t, 1, Len(p)) = p

MatchAt(s, k, w) ==
    /\ k >= 1
    /\ k + Len(w) - 1 <= Len(s)
    /\ SubSeq(s, k, k + Len(w) - 1) = w

RECURSIVE Join(_, _)
Join(parts, sep) ==
    IF parts = <<>> THEN <<>>
    ELSE IF Len(parts) = 1 THEN parts[1]
    ELSE parts[1] \o sep \o Join(Tail(parts), sep)

\* str.split(sep) for a non-empty sep: left to right, occurrences do not overlap
RECURSIVE SplitFrom(_, _, _, _)
SplitFrom(s, sep, k, cur) ==
    IF k > Len(s) THEN <<cur>>
    ELSE IF MatchAt(s, k, sep)
         THEN <<cur>> \o SplitFrom(s, sep, k + Len(sep), <<>>)
         ELSE SplitFrom(s, sep, k + 1, Append(cur, s[k]))

Split(s, sep) == SplitFrom(s, sep, 1, <<>>)

RECURSIVE SeqSet(_, _)
SeqSet(S, n) ==
    IF n = 0 THEN {<<>>}
    ELSE LET shorter == SeqSet(S, n - 1)
         IN  shorter \cup {Append(q, x) : q \in {r \in shorter : Len(r) = n - 1}, x \in S}

-----------------------------------------------------------------------------
(* Structured elements *)

HeaderElem(level, text, page) ==
    [type |-> "header", level |-> level, text |-> text, page |-> page,
     section |-> None, subsection |-> None]

ContentElem(text, page, section, subsection) ==
    [type |-> "content", level |-> 0, text |-> text, page |-> page,
     section |-> section, subsection |-> subsection]

OtherElem(text, page) ==
    [type |-> "table", level |-> 0, text |-> text, page |-> page,
     section |-> None, subsection |-> None]

-----------------------------------------------------------------------------
(* Characters.  The ligature U+FB01 of 'Deﬁnitions' is the single character *)
(* "fi" and the en dash U+2013 of '–9th Edition' is the single character    *)
(* "--"; every element of a text counts 1 in len().                         *)

LowerSeq ==
    <<"a", "b", "c", "d", "e", "f", "g", "h", "i", "j", "k", "l", "m",
      "n", "o", "p", "q", "r", "s", "t", "u", "v", "w", "x", "y", "z">>

UpperSeq ==
    <<"A", "B", "C", "D", "E", "F", "G", "H", "I", "J", "K", "L", "M",
      "N", "O", "P", "Q", "R", "S", "T", "U", "V", "W", "X", "Y", "Z">>

Range(f) == {f[x] : x \in DOMAIN f}

UpperChars == Range(UpperSeq)

LowerChars == Range(LowerSeq)

ToUpper == [c \in LowerChars |-> UpperSeq[CHOOSE k \in DOMAIN LowerSeq : LowerSeq[k] = c]]

IsUpperCh(c) == c \in UpperChars

IsLowerCh(c) == c \in LowerChars

IsLetterCh(c) == IsUpperCh(c) \/ IsLowerCh(c)

IsDigitCh(c) == c \in {"0", "1", "2", "3", "4", "5", "6", "7", "8", "9"}

IsSpaceCh(c) == c \in {" ", "\t", NL}

UpperCh(c) == IF IsLowerCh(c) THEN ToUpper[c] ELSE c

\* str.upper()
Upper(s) == [k \in 1..Len(s) |-> UpperCh(s[k])]

\* str.isupper(): a cased character exists and none is lower case
IsUpperStr(s) ==
    /\ \E k \in 1..Len(s) : IsUpperCh(s[k])
    /\ \A k \in 1..Len(s) : ~IsLowerCh(s[k])

\* str.strip()
RECURSIVE LStrip(_)
LStrip(s) == IF s # <<>> /\ IsSpaceCh(s[1]) THEN LStrip(Tail(s)) ELSE s

RECURSIVE RStrip(_)
RStrip(s) ==
    IF s # <<>> /\ IsSpaceCh(s[Len(s)]) THEN RStrip(SubSeq(s, 1, Len(s) - 1)) ELSE s

Strip(s) == RStrip(LStrip(s))

\* len(str.split()): the number of whitespace-separated words
WordCount(s) ==
    Cardinality({k \in 1..Len(s) : ~IsSpaceCh(s[k]) /\ (k = 1 \/ IsSpaceCh(s[k - 1]))})

\* "w in s"
Contains(s, w) == \E k \in 1..(Len(s) + 1) : MatchAt(s, k, w)

EndsWith(s, w) == Len(w) <= Len(s) /\ SubSeq(s, Len(s) - Len(w) + 1, Len(s)) = w

\* a literal of a regular expression at position k, case-insensitively
MatchAtCI(s, k, w) ==
    /\ k >= 1
    /\ k + Len(w) - 1 <= Len(s)
    /\ \A m \in 1..Len(w) : UpperCh(s[k + m - 1]) = UpperCh(w[m])

CountChar(s, c) == Cardinality({k \in 1..Len(s) : s[k] = c})

\* positions a..b-1 of s are all whitespace, and there is at least one
SpaceRun(s, a, b) == a < b /\ b - 1 <= Len(s) /\ \A k \in a..(b - 1) : IsSpaceCh(s[k])

-----------------------------------------------------------------------------
(* SemanticChunker._detect_major_header *)

W_INTERNATIONAL_ASSOCIATION == <<"I", "N", "T", "E", "R", "N", "A", "T", "I", "O", "N", "A", "L", " ", "A", "S", "S", "O", "C", "I", "A", "T", "I", "O", "N">>

W_EUROPEAN == <<"E", " ", "U", " ", "R", " ", "O", " ", "P", " ", "E", " ", "A", " ", "N">>

W_Cancer == <<"C", "a", "n", "c", "e", "r">>

W_Tumor == <<"T", "u", "m", "o", "r">>

W_Tumors == <<"T", "u", "m", "o", "r", "s">>

W_Mesothelioma == <<"M", "e", "s", "o", "t", "h", "e", "l", "i", "o", "m", "a">>

W_Carcinoma == <<"C", "a", "r", "c", "i", "n", "o", "m", "a">>

W_T == <<"T">>

W_N == <<"N">>

W_M == <<"M">>

W_TNM == <<"T", "N", "M">>

W_Classification == <<"C", "l", "a", "s", "s", "i", "f", "i", "c", "a", "t", "i", "o", "n">>

W_Definition == <<"D", "e", "fi", "n", "i", "t", "i", "o", "n">>

W_Stage == <<"S", "t", "a", "g", "e">>

W_9thEdition == <<"--", "9", "t", "h", " ", "E", "d", "i", "t", "i", "o", "n">>

W_Appendix == <<"A", "p", "p", "e", "n", "d", "i", "x">>

major_keywords ==
    { <<"B", "A", "C", "K", "G", "R", "O", "U", "N", "D">>,
      <<"M", "E", "T", "H", "O", "D", "S">>,
      <<"R", "E", "S", "U", "L", "T", "S">>,
      <<"D", "I", "S", "C", "U", "S", "S", "I", "O", "N">>,
      <<"S", "U", "M", "M", "A", "R", "Y">>,
      <<"C", "O", "N", "C", "L", "U", "S", "I", "O", "N">>,
      <<"R", "E", "F", "E", "R", "E", "N", "C", "E", "S">> }

CancerWords == {W_Cancer, W_Tumor, W_Tumors, W_Mesothelioma, W_Carcinoma}

\* [A-Z][a-zA-Z\s]+ on positions 1..a-1; with re.IGNORECASE (ignorecase) the
\* class [A-Z] takes any letter
CancerPrefix(line, a, ignorecase) ==
    /\ a >= 3
    /\ a <= Len(line)
    /\ IF ignorecase THEN IsLetterCh(line[1]) ELSE IsUpperCh(line[1])
    /\ \A k \in 2..(a - 1) : IsLetterCh(line[k]) \/ IsSpaceCh(line[k])

\* re.match(r'^([A-Z][a-zA-Z\s]+(?:Cancer|Tumors?|Mesothelioma|Carcinoma))
\*            \s+(T|N|M|TNM)\s+(Classification|Deﬁnitions?|Stages?)', line, re.IGNORECASE)
StagingPatternMatches(line, definition) ==
    \E a \in 1..Len(line) : \E w \in CancerWords :
        /\ CancerPrefix(line, a, TRUE)
        /\ MatchAtCI(line, a, w)
        /\ \E b \in 1..Len(line) : \E t \in {W_T, W_N, W_M, W_TNM} :
              /\ SpaceRun(line, a + Len(w), b)
              /\ MatchAtCI(line, b, t)
              /\ \E c \in 1..Len(line) : \E x \in {W_Classification, definition, W_Stage} :
                    /\ SpaceRun(line, b + Len(t), c)
                    /\ MatchAtCI(line, c, x)

TnmPatternMatches(line) == StagingPatternMatches(line, W_Definition)

\* re.match(r'^([A-Z][a-zA-Z\s]+(?:Cancer|Tumors?|Mesothelioma|Carcinoma))', line)
CancerTypePatternMatches(line) ==
    \E a \in 1..Len(line) : \E w \in CancerWords :
        CancerPrefix(line, a, FALSE) /\ MatchAt(line, a, w)

\* the positions p such that line[1..p-1] is matched by (\d+\.)+
NumberPrefixEnds(line) ==
    {p \in 3..(Len(line) + 1) :
        /\ IsDigitCh(line[1])
        /\ line[p - 1] = "."
        /\ \A k \in 1..(p - 1) : IsDigitCh(line[k]) \/ line[k] = "."
        /\ \A k \in 2..(p - 1) : line[k] = "." => IsDigitCh(line[k - 1])}

\* re.match(r'^(\d+\.)+\s+([A-Z][a-zA-Z].+)', line): the end p of (\d+\.)+ and the
\* start q of the text, when the line matches
NumberedMatches(line) ==
    {pq \in NumberPrefixEnds(line) \X (1..Len(line)) :
        /\ SpaceRun(line, pq[1], pq[2])
        /\ pq[2] + 2 <= Len(line)
        /\ IsUpperCh(line[pq[2]])
        /\ IsLetterCh(line[pq[2] + 1])}

\* numbered_match.group(1): what the group (\d+\.) matched in its last repetition
LastRepetition(line, p) ==
    LET dots == {k \in 1..(p - 2) : line[k] = "."}
        from == IF dots = {} THEN 1 ELSE (CHOOSE k \in dots : \A d \in dots : d <= k) + 1
    IN  SubSeq(line, from, p - 1)

Min(a, b) == IF a <= b THEN a ELSE b

\* "level = min(numbered_match.group(1).count('.'), 3)"
NumberedLevel(line, p) == Min(CountChar(LastRepetition(line, p), "."), 3)

\* re.match(r'^Appendix\s+[IVX]+', line, re.IGNORECASE)
AppendixMatches(line) ==
    /\ MatchAtCI(line, 1, W_Appendix)
    /\ \E b \in 1..Len(line) :
          /\ SpaceRun(line, Len(W_Appendix) + 1, b)
          /\ UpperCh(line[b]) \in {"I", "V", "X"}

\* the value None of header_info is the record NoHeader
NoHeader == [level |-> 0, pattern |-> "None"]

HeaderInfo(level, pattern) == [level |-> level, pattern |-> pattern]

DetectMajorHeader(line) ==
    LET numbered_match == NumberedMatches(line) IN
    IF Contains(line, W_INTERNATIONAL_ASSOCIATION) \/ StartsWith(line, W_EUROPEAN)
    THEN NoHeader
    ELSE IF TnmPatternMatches(line)
    THEN HeaderInfo(1, "tnm_cancer_type")
    ELSE IF /\ CancerTypePatternMatches(line)
            /\ \/ Contains(line, W_9thEdition)
               \/ Contains(line, W_Classification)
               \/ WordCount(line) <= 6
    THEN HeaderInfo(1, "tnm_cancer_type")
    ELSE IF /\ numbered_match # {}
            /\ ~EndsWith(line, <<".">>) \/ Len(line) < 80
    THEN HeaderInfo(NumberedLevel(line, (CHOOSE pq \in numbered_match : TRUE)[1]),
                    "numbered")
    ELSE IF AppendixMatches(line)
    THEN HeaderInfo(1, "appendix")
    ELSE IF /\ IsUpperStr(line)
            /\ 2 <= WordCount(line) /\ WordCount(line) <= 8
            /\ Len(line) < 80
            /\ ~EndsWith(line, <<".">>)
    THEN HeaderInfo(1, "all_caps")
    ELSE IF Upper(Strip(line)) \in major_keywords
    THEN HeaderInfo(1, "keyword")
    ELSE NoHeader

-----------------------------------------------------------------------------
(* TNMProcessor._detect_tnm_header: the rules of _detect_major_header with   *)
(* 'Definitions?' spelt in plain letters and without the keyword rule        *)

W_DefinitionPlain == <<"D", "e", "f", "i", "n", "i", "t", "i", "o", "n">>

DetectTnmHeader(line) ==
    LET numbered_match == NumberedMatches(line) IN
    IF Contains(line, W_INTERNATIONAL_ASSOCIATION) \/ StartsWith(line, W_EUROPEAN)
    THEN NoHeader
    ELSE IF StagingPatternMatches(line, W_DefinitionPlain)
    THEN HeaderInfo(1, "tnm_cancer_type")
    ELSE IF /\ CancerTypePatternMatches(line)
            /\ \/ Contains(line, W_9thEdition)
               \/ Contains(line, W_Classification)
               \/ WordCount(line) <= 6
    THEN HeaderInfo(1, "tnm_cancer_type")
    ELSE IF /\ numbered_match # {}
            /\ ~EndsWith(line, <<".">>) \/ Len(line) < 80
    THEN HeaderInfo(NumberedLevel(line, (CHOOSE pq \in numbered_match : TRUE)[1]),
                    "numbered")
    ELSE IF AppendixMatches(line)
    THEN HeaderInfo(1, "appendix")
    ELSE IF /\ IsUpperStr(line)
            /\ 2 <= WordCount(line) /\ WordCount(line) <= 8
            /\ Len(line) < 80
            /\ ~EndsWith(line, <<".">>)
    THEN HeaderInfo(1, "all_caps")
    ELSE NoHeader

\* the header test detect_structure calls: self._detect_major_header in
\* SemanticChunker, self._detect_tnm_header in TNMProcessor
DetectHeader(line) ==
    IF processor = "TNMProcessor" THEN DetectTnmHeader(line) ELSE DetectMajorHeader(line)

-----------------------------------------------------------------------------
(* SemanticChunker.detect_structure *)

\* "while buffer and not buffer[-1]: buffer.pop()"
RECURSIVE TrimTrailing(_)
TrimTrailing(buf) ==
    IF buf # <<>> /\ buf[Len(buf)] = <<>> THEN TrimTrailing(SubSeq(buf, 1, Len(buf) - 1))
    ELSE buf

\* the elements a flush of the buffer appends: one content element, or none
FlushKeepsLast(buf, page_num, section, subsection) ==
    LET trimmed == TrimTrailing(buf)
    IN  IF trimmed = <<>> THEN <<>>
        ELSE << ContentElem(trimmed[Len(trimmed)], page_num, section, subsection) >>

\* a flush that joins the buffer as it is, trailing blank lines included
FlushUntrimmed(buf, page_num, section, subsection) ==
    IF buf = <<>> THEN <<>>
    ELSE << ContentElem(Join(buf, <<NL>>), page_num, section, subsection) >>

Flush(buf, page_num, section, subsection) ==
    LET trimmed == TrimTrailing(buf)
    IN  IF trimmed = <<>> THEN <<>>
        ELSE << ContentElem(Join(trimmed, <<NL>>), page_num, section, subsection) >>

\* "for page in pages:" down to "buffer = []"
StartPage ==
    /\ pc = "page"
    /\ page_idx <= Len(pages)
    /\ current_section' = None
    /\ current_subsection' = None
    /\ lines' = Split(pages[page_idx].text, <<NL>>)
    /\ buffer' = <<>>
    /\ line_idx' = 1
    /\ pc' = "line"
    /\ UNCHANGED <<mdVars, mainVars, buildVars, pages, page_idx, structured_elements, chunkVars, headerVars,
                   abstractVars, runVars>>

\* a line that is empty once stripped
BlankLine ==
    /\ pc = "line"
    /\ line_idx <= Len(lines)
    /\ Strip(lines[line_idx]) = <<>>
    /\ buffer' = IF buffer # <<>> /\ buffer[Len(buffer)] # <<>>
                 THEN Append(buffer, <<>>) ELSE buffer
    /\ line_idx' = line_idx + 1
    /\ UNCHANGED <<mdVars, mainVars, buildVars, pages, page_idx, lines, pc, current_section, current_subsection,
                   structured_elements, chunkVars, headerVars, abstractVars, runVars>>

\* a line that _detect_major_header takes for a header
HeaderLine ==
    /\ pc = "line"
    /\ line_idx <= Len(lines)
    /\ LET line_stripped == Strip(lines[line_idx])
           info == DetectHeader(line_stripped)
           page_num == pages[page_idx].page_number
       IN  /\ line_stripped # <<>>
           /\ info # NoHeader
           /\ structured_elements' =
                 structured_elements
                 \o Flush(buffer, page_num, current_section, current_subsection)
                 \o << HeaderElem(info.level, line_stripped, page_num) >>
           /\ buffer' = <<>>
           /\ current_section' = IF info.level = 1 THEN line_stripped
                                 ELSE current_section
           /\ current_subsection' = IF info.level = 1 THEN None
                                    ELSE IF info.level = 2 THEN line_stripped
                                    ELSE current_subsection
    /\ line_idx' = line_idx + 1
    /\ UNCHANGED <<mdVars, mainVars, buildVars, pages, page_idx, lines, pc, chunkVars, headerVars, abstractVars, runVars>>

\* any other line
ContentLine ==
    /\ pc = "line"
    /\ line_idx <= Len(lines)
    /\ LET line_stripped == Strip(lines[line_idx])
       IN  /\ line_stripped # <<>>
           /\ DetectHeader(line_stripped) = NoHeader
           /\ buffer' = Append(buffer, line_stripped)
    /\ line_idx' = line_idx + 1
    /\ UNCHANGED <<mdVars, mainVars, buildVars, pages, page_idx, lines, pc, current_section, current_subsection,
                   structured_elements, chunkVars, headerVars, abstractVars, runVars>>

\* "Save remaining buffer at end of page", and on to the next page
EndPage ==
    /\ pc = "line"
    /\ line_idx > Len(lines)
    /\ structured_elements' =
          structured_elements
          \o Flush(buffer, pages[page_idx].page_number, current_section, current_subsection)
    /\ page_idx' = page_idx + 1
    /\ pc' = "page"
    /\ UNCHANGED <<mdVars, mainVars, buildVars, pages, lines, line_idx, buffer, current_section, current_subsection,
                   chunkVars, headerVars, abstractVars, runVars>>

DetectDone == pc = "page" /\ page_idx > Len(pages)

DetectNext == StartPage \/ BlankLine \/ HeaderLine \/ ContentLine \/ EndPage

-----------------------------------------------------------------------------
(* SemanticChunker.create_semantic_chunks *)

\* a chunk record; the id f"chunk_{n}" is kept as the pair <<"chunk_", n>>
ChunkRec(n, text, page, section, subsection, char_count) ==
    [id |-> <<"chunk_", n>>, text |-> text, page |-> page, section |-> section,
     subsection |-> subsection, char_count |-> char_count]

\* the test that ends the inner while loop
ClosesSpanStrict(next_elem, section_level) ==
    next_elem.type = "header" /\ next_elem.level < section_level

ClosesSpan(next_elem, section_level) ==
    next_elem.type = "header" /\ next_elem.level <= section_level

\* the inner while loop: from position k, until a closing header or the end
RECURSIVE CollectSpan(_, _, _, _, _, _)
CollectSpan(elems, k, section_level, section_content, section_subsection, idx) ==
    IF k > Len(elems) \/ ClosesSpan(elems[k], section_level)
    THEN [i |-> k, section_content |-> section_content,
          section_subsection |-> section_subsection, idx |-> idx]
    ELSE LET next_elem == elems[k]
             sub == IF next_elem.type = "header" /\ next_elem.level = section_level + 1
                    THEN next_elem.text ELSE section_subsection
         IN  IF next_elem.type = "content"
             THEN CollectSpan(elems, k + 1, section_level,
                              Append(section_content, next_elem.text), sub, idx \cup {k})
             ELSE CollectSpan(elems, k + 1, section_level, section_content, sub, idx)

FullSectionText(section_header, section_content) ==
    section_header \o ParaSep \o Join(section_content, ParaSep)

\* "if current_length + para_len + 2 > self.max_chunk_size"
ExceedsLimit(current_length, para_len, max) == current_length + para_len + 2 > max

\* "current_chunk = [section_header, para]" with its current_length
RestartChunkNoHeader(section_header, para) ==
    [current_chunk |-> <<para>>,
     current_length |-> Len(section_header) + Len(para) + 4]

RestartChunk(section_header, para) ==
    [current_chunk |-> <<section_header, para>>,
     current_length |-> Len(section_header) + Len(para) + 4]

\* the "for para in paragraphs[1:]" loop and the final save; a piece is a
\* (current_chunk, current_length) pair that was appended to chunks
RECURSIVE SplitLoop(_, _, _, _, _, _)
SplitLoop(section_header, paras, k, current_chunk, current_length, max) ==
    IF k > Len(paras)
    THEN IF Len(current_chunk) > 1
         THEN << [current_chunk |-> current_chunk, current_length |-> current_length] >>
         ELSE <<>>
    ELSE LET para == paras[k]
             para_len == Len(para)
         IN  IF ExceedsLimit(current_length, para_len, max)
             THEN LET saved == IF Len(current_chunk) > 1
                               THEN << [current_chunk |-> current_chunk,
                                        current_length |-> current_length] >>
                               ELSE <<>>
                      r == RestartChunk(section_header, para)
                  IN  saved \o SplitLoop(section_header, paras, k + 1,
                                         r.current_chunk, r.current_length, max)
             ELSE SplitLoop(section_header, paras, k + 1, Append(current_chunk, para),
                            current_length + para_len + 2, max)

\* the split without the test "if len(current_chunk) > 1" on the first save:
\* the chunk that holds the header only is saved too
SplitSectionKeepFirst(section_header, full_section_text, max) ==
    LET paragraphs == Split(full_section_text, ParaSep)
    IN  << [current_chunk |-> <<section_header>>,
            current_length |-> Len(section_header) + 2] >>
        \o SplitLoop(section_header, Tail(paragraphs), 1, <<section_header>>,
                     Len(section_header) + 2, max)

\* the split with its pieces saved last first
SplitSectionReversed(section_header, full_section_text, max) ==
    LET paragraphs == Split(full_section_text, ParaSep)
        pieces == SplitLoop(section_header, Tail(paragraphs), 1, <<section_header>>,
                            Len(section_header) + 2, max)
    IN  [p \in 1..Len(pieces) |-> pieces[Len(pieces) + 1 - p]]

SplitSection(section_header, full_section_text, max) ==
    LET paragraphs == Split(full_section_text, ParaSep)
    IN  SplitLoop(section_header, Tail(paragraphs), 1, <<section_header>>,
                  Len(section_header) + 2, max)

\* the record appended for a piece of a split section
SplitChunk(n, piece, section_page, section_header, section_subsection) ==
    ChunkRec(n, Join(piece.current_chunk, ParaSep), section_page,
             section_header, section_subsection, piece.current_length)

\* the record appended for a section that fits
WholeChunkSwapped(n, full_section_text, section_page, section_header, section_subsection) ==
    ChunkRec(n, full_section_text, section_page, section_subsection, section_header,
             Len(full_section_text))

WholeChunk(n, full_section_text, section_page, section_header, section_subsection) ==
    ChunkRec(n, full_section_text, section_page, section_header, section_subsection,
             Len(full_section_text))

\* the record appended for content that has no header
HeadlessChunk(n, element) ==
    ChunkRec(n, element.text, element.page, None, None, Len(element.text))

\* the chunks one header iteration appends, numbered from n
SectionChunks(n, element, span, max) ==
    IF span.section_content = <<>> THEN <<>>
    ELSE LET full_section_text == FullSectionText(element.text, span.section_content)
         IN  IF Len(full_section_text) <= max
             THEN << WholeChunk(n, full_section_text, element.page, element.text,
                                span.section_subsection) >>
             ELSE LET pieces == SplitSection(element.text, full_section_text, max)
                  IN  [p \in 1..Len(pieces) |->
                          SplitChunk(n + p - 1, pieces[p], element.page, element.text,
                                     span.section_subsection)]

\* history of the chunks one header iteration appends
SectionOrigins(hdr, element, span, max) ==
    IF span.section_content = <<>> THEN <<>>
    ELSE LET full_section_text == FullSectionText(element.text, span.section_content)
         IN  IF Len(full_section_text) <= max
             THEN << [hdr |-> hdr, span |-> span.idx, split |-> FALSE, paras |-> <<>>] >>
             ELSE LET pieces == SplitSection(element.text, full_section_text, max)
                  IN  [p \in 1..Len(pieces) |->
                          [hdr |-> hdr, span |-> span.idx, split |-> TRUE,
                           paras |-> Tail(pieces[p].current_chunk)]]

\* one iteration of the outer while loop on a header
HeaderStep ==
    /\ i <= Len(structured_elements)
    /\ structured_elements[i].type = "header"
    /\ LET element == structured_elements[i]
           span == CollectSpan(structured_elements, i + 1, element.level, <<>>, None, {})
           new == SectionChunks(chunk_id, element, span, max_chunk_size)
       IN  /\ i' = span.i
           /\ chunks' = chunks \o new
           /\ chunk_id' = chunk_id + Len(new)
           /\ origin' = origin \o SectionOrigins(i, element, span, max_chunk_size)
    /\ UNCHANGED <<mdVars, mainVars, buildVars, structured_elements, max_chunk_size, log, detectVars, headerVars,
                   abstractVars, runVars>>

\* one iteration of the outer while loop on content that has no header
ContentStep ==
    /\ i <= Len(structured_elements)
    /\ structured_elements[i].type = "content"
    /\ chunks' = Append(chunks, HeadlessChunk(chunk_id, structured_elements[i]))
    /\ chunk_id' = chunk_id + 1
    /\ origin' = Append(origin, [hdr |-> 0, span |-> {i}, split |-> FALSE, paras |-> <<>>])
    /\ i' = i + 1
    /\ UNCHANGED <<mdVars, mainVars, buildVars, structured_elements, max_chunk_size, log, detectVars, headerVars,
                   abstractVars, runVars>>

\* an iteration on any other element that leaves the cursor where it is
OtherStepStuck ==
    /\ i <= Len(structured_elements)
    /\ structured_elements[i].type \notin {"header", "content"}
    /\ i' = i
    /\ UNCHANGED <<mdVars, mainVars, buildVars, structured_elements, max_chunk_size, chunks, chunk_id, origin, log,
                   detectVars, headerVars, abstractVars, runVars>>

\* one iteration of the outer while loop on any other element
OtherStep ==
    /\ i <= Len(structured_elements)
    /\ structured_elements[i].type \notin {"header", "content"}
    /\ i' = i + 1
    /\ UNCHANGED <<mdVars, mainVars, buildVars, structured_elements, max_chunk_size, chunks, chunk_id, origin, log,
                   detectVars, headerVars, abstractVars, runVars>>

ChunkDone == i > Len(structured_elements)

-----------------------------------------------------------------------------
(* fetch_rad_corpora.run_recommended_queries and                           *)
(* process_abstracts_for_rag.create_text_chunks                            *)

\* str.replace(old, new): left to right, occurrences do not overlap
RECURSIVE ReplaceFrom(_, _, _, _)
ReplaceFrom(s, old, new, k) ==
    IF k > Len(s) THEN <<>>
    ELSE IF MatchAt(s, k, old) THEN new \o ReplaceFrom(s, old, new, k + Len(old))
    ELSE <<s[k]>> \o ReplaceFrom(s, old, new, k + 1)

Replace(s, old, new) == ReplaceFrom(s, old, new, 1)

Digits == <<"0", "1", "2", "3", "4", "5", "6", "7", "8", "9">>

\* the decimal form of a natural number, as an f-string writes it
RECURSIVE Str(_)
Str(n) == IF n < 10 THEN <<Digits[n + 1]>>
          ELSE Str(n \div 10) \o <<Digits[(n % 10) + 1]>>

\* the record fetch_abstracts appends for an article (the fields journal, year
\* and authors, which create_text_chunks does not read, are left out)
AbstractRec(pmid, article) ==
    [pmid |-> pmid, title |-> article.title, abstract |-> article.abstract]

\* fetch_abstracts(pmids): one record per article, "if abstract" only
RECURSIVE fetch_abstracts(_, _)
fetch_abstracts(pmids, articles) ==
    IF pmids = <<>> THEN <<>>
    ELSE (IF articles[pmids[1]].abstract # <<>>
          THEN << AbstractRec(pmids[1], articles[pmids[1]]) >>
          ELSE <<>>)
         \o fetch_abstracts(Tail(pmids), articles)

\* one iteration of "for name, core_term in RECOMMENDED_QUERIES"
RunQuery ==
    /\ stage = "fetch"
    /\ q_idx <= Len(pubmed.results)
    /\ LET pmids == pubmed.results[q_idx]
           fetched == fetch_abstracts(pmids, pubmed.articles)
       IN  /\ saved_queries' = IF pmids # <<>>
                               THEN Append(saved_queries,
                                           [query |-> q_idx, abstracts |-> fetched])
                               ELSE saved_queries
           /\ all_abstracts' = IF pmids # <<>> THEN all_abstracts \o fetched
                               ELSE all_abstracts
    /\ q_idx' = q_idx + 1
    /\ UNCHANGED <<mdVars, mainVars, buildVars, pubmed, stage, abstracts, max_chunk_length, a_idx, text_chunks,
                   structured_elements, chunkVars, detectVars, headerVars, runVars>>

\* "Save combined file": all_abstracts.json, which process_all_abstracts loads and
\* hands to create_text_chunks
SaveCombined ==
    /\ stage = "fetch"
    /\ q_idx > Len(pubmed.results)
    /\ abstracts' = all_abstracts
    /\ a_idx' = 1
    /\ text_chunks' = <<>>
    /\ stage' = "process"
    /\ UNCHANGED <<mdVars, mainVars, buildVars, pubmed, q_idx, all_abstracts, saved_queries, max_chunk_length,
                   structured_elements, chunkVars, detectVars, headerVars, runVars>>

PMID == <<"P", "M", "I", "D", ":">>

W_chunk == <<"_", "c", "h", "u", "n", "k", "_">>

\* f"PMID:{pmid}_chunk_{chunk_index}"
TextChunkId(pmid, chunk_index) == PMID \o pmid \o W_chunk \o Str(chunk_index)

\* 'total_chunks': 'TBD'
TBD == -1

TextChunk(pmid, text, chunk_index, total_chunks) ==
    [chunk_id |-> TextChunkId(pmid, chunk_index), pmid |-> pmid, text |-> text,
     chunk_index |-> chunk_index, total_chunks |-> total_chunks]

\* abstract_text.replace('. ', '.|').split('|')
Sentences(abstract_text) == Split(Replace(abstract_text, <<".", " ">>, <<".", "|">>), <<"|">>)

\* "for sentence in sentences": the chunks appended, and current_chunk and
\* chunk_index as the loop leaves them
RECURSIVE SentenceLoop(_, _, _, _, _, _, _)
SentenceLoop(pmid, title, sentences, k, current_chunk, chunk_index, max) ==
    IF k > Len(sentences)
    THEN [out |-> <<>>, current_chunk |-> current_chunk, chunk_index |-> chunk_index]
    ELSE LET sentence == Strip(sentences[k]) IN
         IF sentence = <<>>
         THEN SentenceLoop(pmid, title, sentences, k + 1, current_chunk, chunk_index, max)
         ELSE IF /\ Len(current_chunk) + Len(sentence) > max
                 /\ Len(current_chunk) > Len(title) + 2
         THEN LET rest == SentenceLoop(pmid, title, sentences, k + 1,
                                       title \o ParaSep \o sentence \o <<".", " ">>,
                                       chunk_index + 1, max)
              IN  [rest EXCEPT !.out =
                      << TextChunk(pmid, Strip(current_chunk), chunk_index, TBD) >> \o @]
         ELSE SentenceLoop(pmid, title, sentences, k + 1,
                           current_chunk \o sentence \o <<".", " ">>, chunk_index, max)

\* create_text_chunks without its second pass: the provisional totals stay
NoBackfill(cs, pmid, total) == cs

\* "Update total_chunks for all chunks from this abstract"
Backfill(cs, pmid, total) ==
    [k \in 1..Len(cs) |->
        IF cs[k].pmid = pmid /\ cs[k].total_chunks = TBD
        THEN [cs[k] EXCEPT !.total_chunks = total] ELSE cs[k]]

\* the body of "for abstract in abstracts" on one record: the list chunks after it
AfterAbstract(cs, rec, max) ==
    LET pmid == rec.pmid
        title == Strip(rec.title)
        abstract_text == Strip(rec.abstract)
        full_text == title \o ParaSep \o abstract_text
    IN  IF Len(full_text) <= max
        THEN Append(cs, TextChunk(pmid, full_text, 0, 1))
        ELSE LET loop == SentenceLoop(pmid, title, Sentences(abstract_text), 1,
                                      title \o ParaSep, 0, max)
                 last == IF Strip(loop.current_chunk) # <<>>
                         THEN << TextChunk(pmid, Strip(loop.current_chunk),
                                           loop.chunk_index, loop.chunk_index + 1) >>
                         ELSE <<>>
             IN  Backfill(cs \o loop.out \o last, pmid, loop.chunk_index + 1)

\* one iteration of "for abstract in abstracts"
ChunkAbstract ==
    /\ stage = "process"
    /\ a_idx <= Len(abstracts)
    /\ text_chunks' = AfterAbstract(text_chunks, abstracts[a_idx], max_chunk_length)
    /\ a_idx' = a_idx + 1
    /\ UNCHANGED <<mdVars, mainVars, buildVars, pubmed, q_idx, all_abstracts, saved_queries, stage, abstracts,
                   max_chunk_length, structured_elements, chunkVars, detectVars,
                   headerVars, runVars>>

TextChunksDone == stage = "process" /\ a_idx > Len(abstracts)

-----------------------------------------------------------------------------
(* main(): LOINCProcessor.process and TNMProcessor.process, with save_chunks *)

\* the characters of the model in code point order, for sorted()
CodeOrder == <<" ", "-", ".">> \o Digits \o <<":">> \o UpperSeq \o <<"_">> \o LowerSeq

Ord == [c \in Range(CodeOrder) |-> CHOOSE k \in DOMAIN CodeOrder : CodeOrder[k] = c]

\* a <= b for Python strings
RECURSIVE StrLE(_, _)
StrLE(a, b) ==
    IF a = <<>> THEN TRUE
    ELSE IF b = <<>> THEN FALSE
    ELSE IF a[1] = b[1] THEN StrLE(Tail(a), Tail(b))
    ELSE Ord[a[1]] < Ord[b[1]]

RECURSIVE Insert(_, _)
Insert(x, ordered) ==
    IF ordered = <<>> THEN <<x>>
    ELSE IF StrLE(x, ordered[1]) THEN <<x>> \o ordered
    ELSE <<ordered[1]>> \o Insert(x, Tail(ordered))

\* sorted(...) of a list of strings
RECURSIVE Sorted(_)
Sorted(q) == IF q = <<>> THEN <<>> ELSE Insert(q[1], Sorted(Tail(q)))

\* the orders in which a set can be iterated: list(a_set) returns one of them,
\* and which one changes from process to process with the hash seed of str
ListsOf(S) ==
    {q \in [1..Cardinality(S) -> S] : \A a, b \in 1..Cardinality(S) : a # b => q[a] # q[b]}

\* the standardized record of models/chunk.py, as to_dict() serializes it
Chunk(id, text, source_type, metadata) ==
    [chunk_id |-> id, text |-> text, source_type |-> source_type, metadata |-> metadata]

\* the keys of loinc_groups in insertion order: the non-empty LoincNumbers in the
\* order of their first row
RECURSIVE GroupKeys(_, _)
GroupKeys(procs, seen) ==
    IF procs = <<>> THEN <<>>
    ELSE LET loinc_num == procs[1].LoincNumber IN
         IF loinc_num = <<>> \/ loinc_num \in seen THEN GroupKeys(Tail(procs), seen)
         ELSE <<loinc_num>> \o GroupKeys(Tail(procs), seen \cup {loinc_num})

\* loinc_groups[loinc_num]
GroupParts(procs, loinc_num) ==
    LET Same(proc) == proc.LoincNumber = loinc_num IN SelectSeq(procs, Same)

Field(parts, name) == {parts[k][name] : k \in 1..Len(parts)} \ {<<>>}

Comma == <<",", " ">>

\* pt.replace('Rad.', '').replace('.', ' ').strip()
CleanType(pt) ==
    LET W_Rad == <<"R", "a", "d", ".">>
    IN  Strip(Replace(Replace(pt, W_Rad, <<>>), <<".">>, <<" ">>))

Optional(label, value) == IF value # <<>> THEN << label \o value >> ELSE <<>>

AnyList(S) == CHOOSE q \in ListsOf(S) : TRUE

\* chunk_text of one LOINC code
LoincText(loinc_num, parts) ==
    LET L_LOINC == <<"L", "O", "I", "N", "C", ":", " ">>
        L_Name == <<"N", "a", "m", "e", ":", " ">>
        L_ShortName == <<"S", "h", "o", "r", "t", " ", "N", "a", "m", "e", ":", " ">>
        L_Component == <<"C", "o", "m", "p", "o", "n", "e", "n", "t", ":", " ">>
        L_RadLexIDs ==
            <<"R", "a", "d", "L", "e", "x", " ", "I", "D", "s", ":", " ">>
        L_System == <<"S", "y", "s", "t", "e", "m", ":", " ">>
        L_Property == <<"P", "r", "o", "p", "e", "r", "t", "y", ":", " ">>
        main == parts[1]
        anatomies == Field(parts, "PartName")
        radlex_ids == Field(parts, "RID")
        part_types == AnyList(Field(parts, "PartTypeName"))
        clean_types == [k \in 1..Len(part_types) |-> CleanType(part_types[k])]
        text_parts ==
            << L_LOINC \o loinc_num >>
            \o Optional(L_Name, main.LongCommonName)
            \o Optional(L_ShortName, main.ShortName)
            \o (IF anatomies # {}
                THEN << L_Component \o Join(Sorted(AnyList(anatomies)), Comma) >> ELSE <<>>)
            \o (IF radlex_ids # {}
                THEN << L_RadLexIDs \o Join(Sorted(AnyList(radlex_ids)), Comma) >> ELSE <<>>)
            \o (IF clean_types # <<>>
                THEN << L_System \o Join(Sorted(clean_types), Comma) >> ELSE <<>>)
            \o Optional(L_Property, main.Property)
    IN  Join(text_parts, <<NL>>)

\* the Chunk of one LOINC code: created_at is what datetime.now() returned,
\* anatomical_parts and radlex_ids are what list(...) made of the two sets
LoincChunk(loinc_num, parts, created_at, anatomical_parts, radlex_ids) ==
    LET chunk_text == LoincText(loinc_num, parts)
        W_loinc == <<"l", "o", "i", "n", "c", "_">>
    IN
    Chunk(W_loinc \o Replace(loinc_num, <<"-">>, <<"_">>), chunk_text, "loinc",
          [source_file |-> "LoincRsnaRadiologyPlaybook.csv",
           created_at |-> created_at,
           code |-> loinc_num,
           procedure_name |-> parts[1].LongCommonName,
           anatomical_parts |-> anatomical_parts,
           radlex_ids |-> radlex_ids,
           part_count |-> Len(parts),
           category |-> "lab_terminology",
           char_count |-> Len(chunk_text)])

\* "for loinc_num, parts in loinc_groups.items()": every list self.chunks can end
\* as, with the clock as the last datetime.now() left it.  The clock never goes
\* back, and may or may not have advanced between two readings.
RECURSIVE LoincRuns(_, _, _)
LoincRuns(procs, keys, now) ==
    IF keys = <<>> THEN { [out |-> <<>>, clock |-> now] }
    ELSE LET parts == GroupParts(procs, keys[1]) IN
         UNION { UNION { UNION {
            { [out |-> << LoincChunk(keys[1], parts, t, ao, ro) >> \o r.out,
               clock |-> r.clock] : r \in LoincRuns(procs, Tail(keys), t) }
            : ro \in ListsOf(Field(parts, "RID")) }
            : ao \in ListsOf(Field(parts, "PartName")) }
            : t \in now..MaxClock }

\* [2/4]: LOINCProcessor(loinc_dir).process() and save_chunks("loinc_chunks.jsonl")
ProcessLoinc ==
    /\ phase = "loinc"
    /\ \E r \in LoincRuns(procedures, GroupKeys(procedures, {}), clock) :
          /\ files' = [files EXCEPT !.loinc = r.out]
          /\ clock' = r.clock
    /\ phase' = "tnm"
    /\ UNCHANGED <<mdVars, mainVars, buildVars, processor, run, procedures, history, structured_elements, chunkVars,
                   detectVars, headerVars, abstractVars>>

\* TNMProcessor._identify_category
IdentifyCategory(text) ==
    IF text = None \/ text = <<>> THEN "Unknown"
    ELSE LET W_T_CLASSIFICATION ==
                 <<"T", " ", "C", "L", "A", "S", "S", "I", "F", "I", "C", "A", "T", "I", "O", "N">>
             W_T_STAGE == <<"T", " ", "S", "T", "A", "G", "E">>
             W_N_CLASSIFICATION ==
                 <<"N", " ", "C", "L", "A", "S", "S", "I", "F", "I", "C", "A", "T", "I", "O", "N">>
             W_N_STAGE == <<"N", " ", "S", "T", "A", "G", "E">>
             W_M_CLASSIFICATION ==
                 <<"M", " ", "C", "L", "A", "S", "S", "I", "F", "I", "C", "A", "T", "I", "O", "N">>
             W_M_STAGE == <<"M", " ", "S", "T", "A", "G", "E">>
             W_STAGE_GROUP == <<"S", "T", "A", "G", "E", " ", "G", "R", "O", "U", "P">>
             text_upper == Upper(text)
         IN
         IF Contains(text_upper, W_T_CLASSIFICATION) \/ Contains(text_upper, W_T_STAGE)
         THEN "T-staging"
         ELSE IF Contains(text_upper, W_N_CLASSIFICATION) \/ Contains(text_upper, W_N_STAGE)
         THEN "N-staging"
         ELSE IF Contains(text_upper, W_M_CLASSIFICATION) \/ Contains(text_upper, W_M_STAGE)
         THEN "M-staging"
         ELSE IF Contains(text_upper, W_TNM) \/ Contains(text_upper, W_STAGE_GROUP)
         THEN "TNM-staging"
         ELSE "Unknown"

\* the Chunk made of one raw chunk; the id is f"tnm_lung_{raw_chunk['id']}"
TnmChunk(raw_chunk, created_at) ==
    Chunk(<<"tnm_lung_">> \o raw_chunk.id, raw_chunk.text, "tnm_lung_protocol",
          [source_file |-> "Lung_ Protocol for Cancer Staging Documentation.pdf",
           created_at |-> created_at,
           page |-> raw_chunk.page,
           cancer_type |-> "Lung",
           category |-> IdentifyCategory(raw_chunk.section),
           section |-> raw_chunk.section,
           subsection |-> raw_chunk.subsection,
           tnm_edition |-> "9th",
           protocol_type |-> "staging_documentation",
           chunk_method |-> "semantic",
           char_count |-> raw_chunk.char_count])

\* "for raw_chunk in raw_chunks": every list self.chunks can end as
RECURSIVE TnmRuns(_, _)
TnmRuns(raw_chunks, now) ==
    IF raw_chunks = <<>> THEN { [out |-> <<>>, clock |-> now] }
    ELSE UNION {
            { [out |-> << TnmChunk(raw_chunks[1], t) >> \o r.out, clock |-> r.clock]
              : r \in TnmRuns(Tail(raw_chunks), t) }
            : t \in now..MaxClock }

\* [3/4]: the steps of TNMProcessor.detect_structure
RunDetect == phase = "tnm" /\ DetectNext

\* the steps of TNMProcessor.create_semantic_chunks; detect_structure emits
\* headers and content only, so the loop never meets another kind of element
RunChunk == phase = "tnm" /\ DetectDone /\ (HeaderStep \/ ContentStep)

\* "Convert to Chunk objects" and save_chunks("tnm_chunks.jsonl")
ConvertTnm ==
    /\ phase = "tnm"
    /\ DetectDone
    /\ ChunkDone
    /\ \E r \in TnmRuns(chunks, clock) :
          /\ files' = [files EXCEPT !.tnm = r.out]
          /\ clock' = r.clock
    /\ phase' = "end"
    /\ UNCHANGED <<mdVars, mainVars, buildVars, processor, run, procedures, history, structured_elements, chunkVars,
                   detectVars, headerVars, abstractVars>>

\* the run is over; the next run is a new process on the same input
EndRun ==
    /\ phase = "end"
    /\ history' = Append(history, files)
    /\ IF run < MaxRuns
       THEN /\ run' = run + 1
            /\ phase' = "loinc"
            /\ page_idx' = 1
            /\ lines' = <<>>
            /\ line_idx' = 1
            /\ pc' = "page"
            /\ current_section' = None
            /\ current_subsection' = None
            /\ buffer' = <<>>
            /\ structured_elements' = <<>>
            /\ i' = 1
            /\ chunks' = <<>>
            /\ chunk_id' = 0
            /\ origin' = <<>>
       ELSE /\ phase' = "done"
            /\ UNCHANGED <<mdVars, mainVars, buildVars, run, page_idx, lines, line_idx, pc, current_section,
                           current_subsection, buffer, structured_elements, i, chunks,
                           chunk_id, origin>>
    /\ UNCHANGED <<mdVars, mainVars, buildVars, processor, clock, procedures, files, pages, max_chunk_size, log,
                   headerVars, abstractVars>>

-----------------------------------------------------------------------------
(* parse_loinc_playbook of process_rad_data_for_rag.py *)

\* a row of the playbook CSV (of its columns, those that decide the facets)
PlaybookRow(num, long, ptype, part, rid) ==
    [LoincNumber |-> num, LongCommonName |-> long, PartTypeName |-> ptype,
     PartName |-> part, RID |-> rid]

FacetKeys ==
    <<"modality", "modality_subtype", "anatomic_location", "imaging_focus", "laterality",
      "view", "timing", "maneuver", "pharmaceutical", "reason_for_exam", "guidance",
      "subject">>

\* the if / elif chain on part_type: the facet list the row's part_name is
\* appended to, "none" when no branch is taken; named is "part_name is not empty"
Route(part_type, named) ==
    LET has(w) == Contains(part_type, w)
    IN  IF has(<<"M", "o", "d", "a", "l", "i", "t", "y">>) /\ named
            THEN (IF has(<<"S", "u", "b", "t", "y", "p", "e">>) THEN "modality_subtype" ELSE "modality")
        ELSE IF has(<<"A", "n", "a", "t", "o", "m", "i", "c">>) /\ named
            THEN (IF has(<<"F", "o", "c", "u", "s">>) THEN "imaging_focus" ELSE "anatomic_location")
        ELSE IF has(<<"L", "a", "t", "e", "r", "a", "l", "i", "t", "y">>) /\ named THEN "laterality"
        ELSE IF has(<<"V", "i", "e", "w">>) /\ named THEN "view"
        ELSE IF has(<<"T", "i", "m", "i", "n", "g">>) /\ named THEN "timing"
        ELSE IF has(<<"M", "a", "n", "e", "u", "v", "e", "r">>) /\ named THEN "maneuver"
        ELSE IF has(<<"P", "h", "a", "r", "m", "a", "c", "e", "u", "t", "i", "c", "a", "l">>) /\ named THEN "pharmaceutical"
        ELSE IF has(<<"R", "e", "a", "s", "o", "n">>) /\ named THEN "reason_for_exam"
        ELSE IF has(<<"G", "u", "i", "d", "a", "n", "c", "e">>) /\ named THEN "guidance"
        ELSE IF has(<<"S", "u", "b", "j", "e", "c", "t">>) /\ named THEN "subject"
        ELSE "none"

\* the part types of the rows given to the parser
PartTypes ==
    << <<"R", "a", "d", ".", "M", "o", "d", "a", "l", "i", "t", "y">>,
       <<"R", "a", "d", ".", "A", "n", "a", "t", "o", "m", "i", "c", " ", "L", "o", "c", "a", "t", "i", "o", "n">>,
       <<"R", "a", "d", ".", "A", "n", "a", "t", "o", "m", "i", "c", " ", "L", "o", "c", "a", "t", "i", "o", "n", ".", "L", "a", "t", "e", "r", "a", "l", "i", "t", "y">>,
       <<"M", "E", "T", "H", "O", "D">> >>

\* the chain, computed once for every part type of the input
RouteTable == [pt \in Range(PartTypes) |-> [named \in BOOLEAN |-> Route(pt, named)]]

FacetOf(part_type, part_name) == RouteTable[part_type][part_name # <<>>]

\* the dict after "procedures[loinc_num]..." has read and written the entry of
\* loinc_num for one row; the defaultdict creates the entry of a number it has
\* not seen
WithRow(procs, row) ==
    LET loinc_num == row.LoincNumber
        created == [k \in Range(FacetKeys) \cup {"loinc_number", "long_common_name",
                                                  "components", "radlex_ids"} |->
                       IF k \in {"loinc_number", "long_common_name"} THEN None
                       ELSE IF k = "radlex_ids" THEN {}
                       ELSE <<>>]
        old == IF loinc_num \in DOMAIN procs THEN procs[loinc_num] ELSE created
        facet == FacetOf(row.PartTypeName, row.PartName)
        component == [part_type |-> row.PartTypeName, part_name |-> row.PartName,
                      rid |-> IF row.RID # <<>> THEN row.RID ELSE None]
        new == [k \in DOMAIN old |->
                   IF k = "loinc_number" THEN loinc_num
                   ELSE IF k = "long_common_name"
                       THEN (IF old.loinc_number = None THEN row.LongCommonName ELSE old[k])
                   ELSE IF k = "components" THEN Append(old[k], component)
                   ELSE IF k = facet THEN Append(old[k], row.PartName)
                   ELSE IF k = "radlex_ids" /\ row.RID # <<>> THEN old[k] \cup {row.RID}
                   ELSE old[k]]
    IN  [c \in DOMAIN procs \cup {loinc_num} |-> IF c = loinc_num THEN new ELSE procs[c]]

\* one turn of "for row in reader"
ParseRow ==
    /\ build_pc = "rows"
    /\ row_idx <= Len(csv_rows)
    /\ procedures_dict' = WithRow(procedures_dict, csv_rows[row_idx])
    /\ row_idx' = row_idx + 1
    /\ UNCHANGED <<mdVars, mainVars, documents, csv_rows, build_pc, owl_classes, cls_idx, terms, owl_idx, owl_terms,
                   structured_elements, chunkVars, detectVars, headerVars, abstractVars,
                   runVars>>

\* a list copied value by value, repeated values included
RECURSIVE FromKeysKeepAll(_)
FromKeysKeepAll(q) ==
    IF q = <<>> THEN <<>>
    ELSE Append(FromKeysKeepAll(SubSeq(q, 1, Len(q) - 1)), q[Len(q)])

\* list(dict.fromkeys(q)): the first occurrence of every value, in order
RECURSIVE FromKeys(_)
FromKeys(q) ==
    IF q = <<>> THEN <<>>
    ELSE LET front == FromKeys(SubSeq(q, 1, Len(q) - 1))
             last == q[Len(q)]
         IN  IF last \in Range(front) THEN front ELSE Append(front, last)

\* "Convert sets to lists" and the return
ConvertSets ==
    /\ build_pc = "rows"
    /\ row_idx > Len(csv_rows)
    /\ procedures_dict' =
           [c \in DOMAIN procedures_dict |->
               [k \in DOMAIN procedures_dict[c] |->
                   IF k = "radlex_ids"
                       THEN Sorted(CHOOSE q \in ListsOf(procedures_dict[c][k]) : TRUE)
                   ELSE IF k \in Range(FacetKeys) THEN FromKeys(procedures_dict[c][k])
                   ELSE procedures_dict[c][k]]]
    /\ build_pc' = "returned"
    /\ UNCHANGED <<mdVars, mainVars, documents, csv_rows, row_idx, owl_classes, cls_idx, terms, owl_idx, owl_terms,
                   structured_elements, chunkVars, detectVars, headerVars, abstractVars,
                   runVars>>

\* enrich_loinc_procedures: every procedure gets the fields of its entry of
\* the enrichment table, or empty ones when the table has no entry for it
EnrichProcedures ==
    /\ build_pc = "returned"
    /\ \E enrichment \in
           LET entries == { [short_name |-> <<"S">>, consumer_name |-> <<"N">>,
                             synonyms |-> << <<"X">> >>],
                            [short_name |-> <<>>, consumer_name |-> <<"C">>,
                             synonyms |-> <<>>] }
           IN  {<<>>} \cup {[c \in DOMAIN procedures_dict |-> e] : e \in entries} :
         procedures_dict' =
             [c \in DOMAIN procedures_dict |->
                 LET proc == procedures_dict[c]
                     enrich == IF c \in DOMAIN enrichment THEN enrichment[c]
                               ELSE [short_name |-> <<>>, consumer_name |-> <<>>,
                                     synonyms |-> <<>>]
                 IN  [k \in DOMAIN proc \cup DOMAIN enrich |->
                         IF k \in DOMAIN enrich THEN enrich[k] ELSE proc[k]]]
    /\ build_pc' = "enriched"
    /\ UNCHANGED <<mdVars, mainVars, documents, csv_rows, row_idx, owl_classes, cls_idx, terms, owl_idx,
                   owl_terms, structured_elements, chunkVars, detectVars, headerVars,
                   abstractVars, runVars>>

\* the 'text' of the document of one procedure
LoincDocText(loinc_num, proc) ==
    LET Listed(label, list) ==
            IF list # <<>> THEN << label \o Join(list, Comma) >> ELSE <<>>
        modality_text ==
            Join(proc.modality, Comma)
            \o (IF proc.modality_subtype # <<>>
                THEN <<" ", "(">> \o Join(proc.modality_subtype, Comma) \o <<")">> ELSE <<>>)
        anatomy ==
            Join(proc.anatomic_location, Comma)
            \o (IF proc.imaging_focus # <<>>
                THEN <<" ", "-", " ">> \o Join(proc.imaging_focus, Comma) ELSE <<>>)
            \o (IF proc.laterality # <<>>
                THEN <<" ", "[">> \o Join(proc.laterality, Comma) \o <<"]">> ELSE <<>>)
        syn_list == SubSeq(proc.synonyms, 1, Min(10, Len(proc.synonyms)))
        text_parts ==
            << <<"P", "r", "o", "c", "e", "d", "u", "r", "e", ":", " ">> \o proc.long_common_name >>
            \o << <<"L", "O", "I", "N", "C", " ", "C", "o", "d", "e", ":", " ">> \o loinc_num >>
            \o Optional(<<"S", "h", "o", "r", "t", " ", "N", "a", "m", "e", ":", " ">>, proc.short_name)
            \o (IF proc.consumer_name # <<>> /\ proc.consumer_name # proc.long_common_name
                THEN << <<"C", "o", "n", "s", "u", "m", "e", "r", " ", "N", "a", "m", "e", ":", " ">> \o proc.consumer_name >> ELSE <<>>)
            \o (IF proc.modality # <<>> THEN << <<"M", "o", "d", "a", "l", "i", "t", "y", ":", " ">> \o modality_text >> ELSE <<>>)
            \o (IF proc.anatomic_location # <<>> THEN << <<"A", "n", "a", "t", "o", "m", "y", ":", " ">> \o anatomy >> ELSE <<>>)
            \o Listed(<<"V", "i", "e", "w", ":", " ">>, proc.view)
            \o Listed(<<"T", "i", "m", "i", "n", "g", ":", " ">>, proc.timing)
            \o Listed(<<"A", "g", "e", "n", "t", ":", " ">>, proc.pharmaceutical)
            \o Listed(<<"M", "a", "n", "e", "u", "v", "e", "r", ":", " ">>, proc.maneuver)
            \o Listed(<<"G", "u", "i", "d", "a", "n", "c", "e", ":", " ">>, proc.guidance)
            \o Listed(<<"I", "n", "d", "i", "c", "a", "t", "i", "o", "n", ":", " ">>, proc.reason_for_exam)
            \o Listed(<<"A", "l", "s", "o", " ", "k", "n", "o", "w", "n", " ", "a", "s", ":", " ">>, syn_list)
    IN  Join(text_parts, <<NL>>)

\* create_loinc_rag_documents: one document per procedure, in the order of the
\* dict, which is the order in which the codes were first read
CreateLoincDocuments ==
    /\ build_pc = "enriched"
    /\ documents' =
           LET codes == GroupKeys(csv_rows, {})
           IN  [k \in 1..Len(codes) |->
                   [id |-> codes[k],
                    name |-> procedures_dict[codes[k]].long_common_name,
                    text |-> LoincDocText(codes[k], procedures_dict[codes[k]])]]
    /\ build_pc' = "documents"
    /\ UNCHANGED <<mdVars, mainVars, csv_rows, row_idx, procedures_dict, owl_classes, cls_idx, terms,
                   owl_idx, owl_terms, structured_elements, chunkVars, detectVars,
                   headerVars, abstractVars, runVars>>

-----------------------------------------------------------------------------
(* parse_radlex_owl of process_rad_data_for_rag.py and                      *)
(* RadLexProcessor._parse_owl of radlex_processor.py.  An owl:Class element  *)
(* is [about, preferred_name, children]: its rdf:about, the text of its      *)
(* RID:Preferred_name child (no text when it has none), its other children   *)
(* in document order, each [tag, text, resource].                            *)

\* "if v not in list: list.append(v)", for each of the values in turn
RECURSIVE AppendAllNew(_, _)
AppendAllNew(list, values) ==
    IF values = <<>> THEN list
    ELSE AppendAllNew(IF Head(values) \in Range(list) THEN list
                      ELSE Append(list, Head(values)),
                      Tail(values))

\* the texts, in document order, of the children that findall returns for the
\* tags and whose text is not empty
TextsOf(children, tags) ==
    LET found == SelectSeq(children, LAMBDA e : e.tag \in tags /\ e.text # <<>>)
    IN  [k \in 1..Len(found) |-> found[k].text]

\* the rdf:resource of the rdfs:subClassOf children that have one
ResourcesOf(children) ==
    LET found == SelectSeq(children,
                           LAMBDA e : e.tag = "rdfs:subClassOf" /\ e.resource # <<>>)
    IN  [k \in 1..Len(found) |-> found[k].resource]

\* extract_rid: re.search(r'RID(\d+)', uri), the leftmost match
extract_rid(uri) ==
    LET RECURSIVE DigitRun(_)
        DigitRun(k) ==
            IF k <= Len(uri) /\ IsDigitCh(uri[k]) THEN <<uri[k]>> \o DigitRun(k + 1) ELSE <<>>
        hits == {k \in 1..Len(uri) : MatchAt(uri, k, <<"R", "I", "D">>) /\ DigitRun(k + 3) # <<>>}
    IN  IF hits = {} THEN None
        ELSE LET k == CHOOSE h \in hits : \A g \in hits : h <= g
             IN  <<"R", "I", "D">> \o DigitRun(k + 3)

NonEmpty(values) == SelectSeq(values, LAMBDA v : v # <<>> /\ v # None)

\* the term parse_radlex_owl builds for the class at position n (of its fields,
\* the lists and the name that decides whether the term is kept); class_no is
\* history: the position of the class the term was built from
RadlexTerm(cls, n) ==
    [class_no |-> n,
     rid |-> extract_rid(cls.about),
     preferred_name |-> IF cls.preferred_name # <<>> THEN cls.preferred_name ELSE None,
     synonyms |-> AppendAllNew(<<>>, TextsOf(cls.children, {"RID:Synonym"})),
     acronyms |-> AppendAllNew(<<>>, TextsOf(cls.children, {"RID:Acronym"})),
     parent_classes |->
         LET uris == ResourcesOf(cls.children)
         IN  AppendAllNew(<<>>, NonEmpty([k \in 1..Len(uris) |-> extract_rid(uris[k])]))]

\* parse_radlex_owl: one turn of "for cls in root.findall('.//owl:Class', NS)"
ParseRadlexClass ==
    /\ cls_idx <= Len(owl_classes)
    /\ LET cls == owl_classes[cls_idx]
           term == RadlexTerm(cls, cls_idx)
       IN  terms' =
               IF \/ cls.about = <<>>
                  \/ ~Contains(cls.about, <<"R", "I", "D">>)
                  \/ term.rid = None
                  \/ term.preferred_name = None
               THEN terms
               ELSE [r \in DOMAIN terms \cup {term.rid} |->
                        IF r = term.rid THEN term ELSE terms[r]]
    /\ cls_idx' = cls_idx + 1
    /\ UNCHANGED <<mdVars, mainVars, documents, csv_rows, row_idx, build_pc, procedures_dict, owl_classes, owl_idx,
                   owl_terms, structured_elements, chunkVars, detectVars, headerVars,
                   abstractVars, runVars>>

\* "any(x in uri for x in ['http://www.w3.org', 'http://purl.org/dc'])"
IsSystemUri(uri) ==
    Contains(uri, <<"h", "t", "t", "p", ":", "/", "/", "w", "w", "w", ".", "w", "3", ".", "o", "r", "g">>) \/ Contains(uri, <<"h", "t", "t", "p", ":", "/", "/", "p", "u", "r", "l", ".", "o", "r", "g", "/", "d", "c">>)

\* uri.split('/')[-1].split('#')[-1]
LastPart(uri) ==
    LET a == Split(uri, <<"/">>)
        b == Split(a[Len(a)], <<"#">>)
    IN  b[Len(b)]

\* the term _parse_owl builds for a class, and whether it is kept
OwlTerm(cls) ==
    LET StripAll(values) == NonEmpty([k \in 1..Len(values) |-> Strip(values[k])])
        label == Strip(cls.preferred_name)
        named == AppendAllNew(<<>>, StripAll(TextsOf(cls.children, {"RID:Synonym"})))
        \* owl_class.find('RID:Acronym'): the first such child
        found == SelectSeq(cls.children, LAMBDA e : e.tag = "RID:Acronym")
        acronym == IF found = <<>> THEN <<>> ELSE Strip(found[1].text)
        with_acronym ==
            IF acronym # <<>> /\ acronym \notin Range(named) /\ acronym # label
            THEN Append(named, acronym) ELSE named
        \* "if 'Synonym' in elem.tag": the children of any namespace
        synonyms == AppendAllNew(with_acronym,
                        StripAll(TextsOf(cls.children,
                                         {"RID:Synonym", "obo:hasExactSynonym"})))
        uris == SelectSeq(ResourcesOf(cls.children), LAMBDA u : ~IsSystemUri(u))
        parent_rids == NonEmpty([k \in 1..Len(uris) |-> LastPart(uris[k])])
        \* the second loop, on the tag written with its namespace, finds the same
        \* children again
        parents == AppendAllNew(AppendAllNew(<<>>, parent_rids), parent_rids)
        rid == LastPart(cls.about)
    IN  [rid |-> rid,
         label |-> IF label # <<>> THEN label ELSE rid,
         kept |-> label # <<>> \/ (rid # <<>> /\ StartsWith(rid, <<"R", "I", "D">>)),
         synonyms |-> synonyms,
         parents |-> parents,
         uri |-> cls.about]

\* _parse_owl: one turn of "for owl_class in owl_classes"; the two parsers share
\* nothing, and the file is read by parse_radlex_owl first
ParseOwlClass ==
    /\ cls_idx > Len(owl_classes)
    /\ owl_idx <= Len(owl_classes)
    /\ LET cls == owl_classes[owl_idx]
           term == OwlTerm(cls)
       IN  owl_terms' =
               IF cls.about = <<>> \/ IsSystemUri(cls.about) \/ ~term.kept
               THEN owl_terms
               ELSE Append(owl_terms, [class_no |-> owl_idx,
                                       rid |-> term.rid, label |-> term.label,
                                       synonyms |-> term.synonyms,
                                       parents |-> term.parents, uri |-> term.uri])
    /\ owl_idx' = owl_idx + 1
    /\ UNCHANGED <<mdVars, mainVars, documents, csv_rows, row_idx, build_pc, procedures_dict, owl_classes, cls_idx,
                   terms, structured_elements, chunkVars, detectVars, headerVars,
                   abstractVars, runVars>>

-----------------------------------------------------------------------------
(* main() of src/src/main.py: the four source blocks and the summary.  What a *)
(* processor does with its input is modelled above; here a block's body      *)
(* either returns a number of chunks or raises an exception with a message.  *)

Returned(result) == [raised |-> FALSE, result |-> result]

Raised(e) == [raised |-> TRUE, error |-> e]

\* a block without its except clause: an exception leaves main()
TryOnly(outcome) ==
    IF outcome.raised THEN [recorded |-> FALSE, next |-> FALSE]
    ELSE [recorded |-> TRUE, result |-> outcome.result, next |-> TRUE]

\* "try: ... except Exception as e: results[source] = {'status': 'failed', ...}"
TryExcept(outcome) ==
    IF outcome.raised
    THEN [recorded |-> TRUE,
          result |-> [status |-> "failed", error |-> outcome.error, chunks |-> 0],
          next |-> TRUE]
    ELSE [recorded |-> TRUE, result |-> outcome.result, next |-> TRUE]

\* one source block of main(): the body's outcome goes through the try / except,
\* then main() is at the following block
Block(source, following, outcome) ==
    /\ main_pc = source
    /\ LET t == TryExcept(outcome)
       IN  /\ results' = IF t.recorded
                         THEN [s \in DOMAIN results \cup {source} |->
                                  IF s = source THEN t.result ELSE results[s]]
                         ELSE results
           /\ main_pc' = IF t.next THEN following ELSE "raised"
    /\ attempted' = Append(attempted, source)
    /\ UNCHANGED <<mdVars, data_dir, faults, summary, buildVars, structured_elements, chunkVars,
                   detectVars, headerVars, abstractVars, runVars>>

Skipped == [status |-> "skipped", chunks |-> 0]

Success(n) == [status |-> "success", chunks |-> n]

\* [1/4]: RadLexProcessor.load_radlex raises when RadLex.owl is not in the directory
RadlexBlock ==
    \E n \in 0..MaxSourceChunks :
        Block("radlex", "loinc",
              IF ~data_dir.radlex_dir THEN Returned(Skipped)
              ELSE IF ~data_dir.radlex_owl THEN Raised("RadLex OWL file not found")
              ELSE IF "radlex" \in faults THEN Raised("processing error")
              ELSE Returned(Success(n)))

\* [2/4]: no test of existence; load_loinc raises when there is neither the CSV
\* nor the zip
LoincBlock ==
    \E n \in 0..MaxSourceChunks :
        Block("loinc", "tnm",
              IF ~data_dir.loinc_csv /\ ~data_dir.loinc_zip
                  THEN Raised("No LOINC data found")
              ELSE IF "loinc" \in faults THEN Raised("processing error")
              ELSE Returned(Success(n)))

\* [3/4]: a success also records the details of the chunks
TnmBlock ==
    \E n \in 0..MaxSourceChunks :
        Block("tnm", "recist",
              IF ~data_dir.tnm_pdf THEN Returned(Skipped)
              ELSE IF "tnm" \in faults THEN Raised("processing error")
              ELSE Returned([status |-> "success", chunks |-> n,
                             details |-> [cancer_type |-> "Lung"]]))

\* [4/4]
RecistBlock ==
    \E n \in 0..MaxSourceChunks :
        Block("recist", "summary",
              IF ~data_dir.recist_pdf THEN Returned(Skipped)
              ELSE IF "recist" \in faults THEN Raised("processing error")
              ELSE Returned(Success(n)))

RECURSIVE SumChunks(_, _)
SumChunks(res, S) ==
    IF S = {} THEN 0
    ELSE LET s == CHOOSE x \in S : TRUE
         IN  res[s].chunks + SumChunks(res, S \ {s})

\* "Generate Summary": the record written to processing_summary.json
WriteSummary ==
    /\ main_pc = "summary"
    /\ LET written ==
               [total_chunks |-> SumChunks(results, DOMAIN results),
                by_source |-> [s \in DOMAIN results |-> results[s].chunks],
                status |-> [s \in DOMAIN results |-> results[s].status],
                output_files |-> {s \in DOMAIN results : results[s].status = "success"}]
       IN  summary' =
               IF "tnm" \in DOMAIN results /\ "details" \in DOMAIN results["tnm"]
               THEN [k \in DOMAIN written \cup {"tnm_details"} |->
                        IF k = "tnm_details" THEN results["tnm"].details ELSE written[k]]
               ELSE written
    /\ main_pc' = "done"
    /\ UNCHANGED <<mdVars, data_dir, faults, results, attempted, buildVars, structured_elements,
                   chunkVars, detectVars, headerVars, abstractVars, runVars>>

-----------------------------------------------------------------------------
(* MarkdownProcessor.create_semantic_chunks of markdown_processor.py.  An     *)
(* element is [type, level, text]: a header with the number of its '#' and   *)
(* its text, a table or a text (level 0) with its lines joined.              *)

MdElement(type, level, text) == [type |-> type, level |-> level, text |-> text]

\* the chunk dict (char_count is the length of the same join)
MdChunk(n, parts, section, subsection, subsubsection, station) ==
    [id |-> <<"c", "h", "u", "n", "k", "_">> \o Str(n),
     text |-> Join(parts, ParaSep),
     section |-> section,
     subsection |-> subsection,
     subsubsection |-> subsubsection,
     station |-> station,
     char_count |-> Len(Join(parts, ParaSep))]

\* the inner while loop of a station header: the cursor it stops at
RECURSIVE StationEnd(_)
StationEnd(k) ==
    IF k > Len(elements) THEN k
    ELSE IF elements[k].type = "header" /\ elements[k].level <= 4 THEN k
    ELSE StationEnd(k + 1)

\* a header of level 1, 2 or 3 changes the context; one of another level that
\* is not 4 changes nothing
MdHeaderStep ==
    /\ md_i <= Len(elements)
    /\ elements[md_i].type = "header"
    /\ elements[md_i].level # 4
    /\ LET level == elements[md_i].level
           text == elements[md_i].text
       IN  /\ md_section' = IF level = 1 THEN text ELSE md_section
           /\ md_subsection' = IF level = 1 THEN None
                               ELSE IF level = 2 THEN text ELSE md_subsection
           /\ md_subsubsection' = IF level \in {1, 2} THEN None
                                  ELSE IF level = 3 THEN text ELSE md_subsubsection
    /\ md_i' = md_i + 1
    /\ UNCHANGED <<elements, md_chunks, mainVars, buildVars, structured_elements, chunkVars,
                   detectVars, headerVars, abstractVars, runVars>>

\* a header of level 4: the station chunk, if the span holds a table or a text
MdStationStep ==
    /\ md_i <= Len(elements)
    /\ elements[md_i].type = "header"
    /\ elements[md_i].level = 4
    /\ LET station_header == elements[md_i].text
           stop == StationEnd(md_i + 1)
           span == SelectSeq(SubSeq(elements, md_i + 1, stop - 1),
                             LAMBDA e : e.type \in {"table", "text"})
           content_parts == << <<"#", "#", "#", " ">> \o station_header >>
                            \o [k \in 1..Len(span) |-> span[k].text]
       IN  /\ md_chunks' =
                 IF Len(content_parts) > 1
                 THEN Append(md_chunks,
                             MdChunk(Len(md_chunks), content_parts, md_section,
                                     md_subsection, md_subsubsection, station_header))
                 ELSE md_chunks
           /\ md_i' = stop
    /\ UNCHANGED <<elements, md_section, md_subsection, md_subsubsection, mainVars, buildVars,
                   structured_elements, chunkVars, detectVars, headerVars, abstractVars,
                   runVars>>

\* a table that is under no station header: a chunk of its own
MdTableStep ==
    /\ md_i <= Len(elements)
    /\ elements[md_i].type = "table"
    /\ LET context_parts ==
               (IF md_subsubsection # None /\ md_subsubsection # <<>>
                    THEN << <<"#", "#", "#", " ">> \o md_subsubsection >>
                ELSE IF md_subsection # None /\ md_subsection # <<>>
                    THEN << <<"#", "#", " ">> \o md_subsection >>
                ELSE <<>>)
               \o << elements[md_i].text >>
       IN  md_chunks' = Append(md_chunks,
                               MdChunk(Len(md_chunks), context_parts, md_section,
                                       md_subsection, md_subsubsection, None))
    /\ md_i' = md_i + 1
    /\ UNCHANGED <<elements, md_section, md_subsection, md_subsubsection, mainVars, buildVars,
                   structured_elements, chunkVars, detectVars, headerVars, abstractVars,
                   runVars>>

\* a text that is under no station header: a chunk if it has more than 50
\* characters
MdTextStep ==
    /\ md_i <= Len(elements)
    /\ elements[md_i].type = "text"
    /\ LET text == elements[md_i].text
           context_parts ==
               (IF md_subsubsection # None /\ md_subsubsection # <<>>
                    THEN << <<"#", "#", "#", " ">> \o md_subsubsection >> ELSE <<>>)
               \o << text >>
       IN  md_chunks' =
               IF Len(text) > 50
               THEN Append(md_chunks,
                           MdChunk(Len(md_chunks), context_parts, md_section,
                                   md_subsection, md_subsubsection, None))
               ELSE md_chunks
    /\ md_i' = md_i + 1
    /\ UNCHANGED <<elements, md_section, md_subsection, md_subsubsection, mainVars, buildVars,
                   structured_elements, chunkVars, detectVars, headerVars, abstractVars,
                   runVars>>

MdDone == elements # <<>> /\ md_i > Len(elements)

-----------------------------------------------------------------------------
(* Inputs of create_semantic_chunks *)

HeaderTexts == << <<"H">>, <<"G", "G">>, <<"K">> >>

ContentTexts ==
    { <<"a">>,
      <<"b", NL, NL, "c", "d">>,
      <<"e", NL, "f">>,
      <<"a", ".", " ", "b", ".", " ", "c", "d">> }

ElementInputs ==
    {HeaderElem(l, HeaderTexts[l], 1) : l \in 1..3}
    \cup {ContentElem(t, 1, None, None) : t \in ContentTexts}
    \cup {OtherElem(<<"t">>, 1)}

ChunkIdle ==
    /\ max_chunk_size = 0
    /\ i = 1
    /\ chunks = <<>>
    /\ chunk_id = 0
    /\ origin = <<>>
    /\ log = <<>>

DetectIdle ==
    /\ pages = <<>>
    /\ page_idx = 1
    /\ lines = <<>>
    /\ line_idx = 1
    /\ pc = "idle"
    /\ current_section = None
    /\ current_subsection = None
    /\ buffer = <<>>

NoFiles == [loinc |-> <<>>, tnm |-> <<>>]

AbstractIdle ==
    /\ pubmed = [results |-> <<>>, articles |-> <<>>]
    /\ q_idx = 1
    /\ all_abstracts = <<>>
    /\ saved_queries = <<>>
    /\ stage = "idle"
    /\ abstracts = <<>>
    /\ max_chunk_length = 0
    /\ a_idx = 1
    /\ text_chunks = <<>>

RunIdle ==
    /\ processor = "SemanticChunker"
    /\ clock = 0
    /\ run = 1
    /\ phase = "idle"
    /\ procedures = <<>>
    /\ files = NoFiles
    /\ history = <<>>

BuildIdle ==
    /\ csv_rows = <<>>
    /\ row_idx = 1
    /\ build_pc = "idle"
    /\ procedures_dict = <<>>
    /\ owl_classes = <<>>
    /\ cls_idx = 1
    /\ terms = <<>>
    /\ owl_idx = 1
    /\ owl_terms = <<>>
    /\ documents = <<>>

\* the output directory without processing_summary.json
NoSummary == [exists |-> FALSE]

MainIdle ==
    /\ data_dir = <<>>
    /\ faults = {}
    /\ main_pc = "idle"
    /\ results = <<>>
    /\ summary = NoSummary
    /\ attempted = <<>>

MdIdle ==
    /\ elements = <<>>
    /\ md_i = 1
    /\ md_chunks = <<>>
    /\ md_section = None
    /\ md_subsection = None
    /\ md_subsubsection = None

Unset == [level |-> -1, pattern |-> "unset"]

HeaderIdle == input_line = <<>> /\ header_info = Unset

\* create_semantic_chunks on any element list
ChunkInit ==
    /\ structured_elements \in SeqSet(ElementInputs, MaxElems)
    /\ max_chunk_size \in MinMaxChunkSize..MaxMaxChunkSize
    /\ i = 1
    /\ chunks = <<>>
    /\ chunk_id = 0
    /\ origin = <<>>
    /\ log = <<>>
    /\ DetectIdle
    /\ HeaderIdle
    /\ AbstractIdle
    /\ RunIdle
    /\ BuildIdle
    /\ MainIdle
    /\ MdIdle

Init == ChunkInit

Next == HeaderStep \/ ContentStep \/ OtherStep

Spec == Init /\ [][Next]_vars

\* "def __init__(self, max_chunk_size=3000, ...)"
DefaultMaxChunkSize == 3000

\* before SemanticChunker().create_semantic_chunks(elements)
LiveInit ==
    /\ structured_elements = <<>>
    /\ ChunkIdle
    /\ DetectIdle
    /\ HeaderIdle
    /\ AbstractIdle
    /\ RunIdle
    /\ BuildIdle
    /\ MainIdle
    /\ MdIdle

\* the call: the constructor keeps its default max_chunk_size, the method starts
\* with no chunk and the cursor on the first element of the list it is given
CallChunks ==
    /\ structured_elements = <<>>
    /\ ChunkIdle
    /\ \E input \in SeqSet(ElementInputs, MaxElems) \ {<<>>} :
           structured_elements' = input
    /\ max_chunk_size' = DefaultMaxChunkSize
    /\ UNCHANGED <<mdVars, mainVars, buildVars, i, chunks, chunk_id, origin, log, detectVars,
                   headerVars, abstractVars, runVars>>

LiveNext == CallChunks \/ HeaderStep \/ ContentStep \/ OtherStep

\* the loop is sequential code: as long as "i < len(structured_elements)" holds
\* the next iteration is run
SpecLive == LiveInit /\ [][LiveNext]_vars /\ WF_vars(Next)

-----------------------------------------------------------------------------
(* Inputs of detect_structure *)

LineInputs ==
    { <<>>,
      <<" ", "c", " ">>,
      <<"a", "b">>,
      <<"1", ".", " ", "A", "b", "c">> }

\* the ways to cut a list of lines into n consecutive pages
RECURSIVE SplitPages(_, _)
SplitPages(ls, n) ==
    IF n = 0 THEN (IF ls = <<>> THEN {<<>>} ELSE {})
    ELSE UNION { { <<SubSeq(ls, 1, c)>> \o rest :
                     rest \in SplitPages(SubSeq(ls, c + 1, Len(ls)), n - 1) } :
                 c \in 0..Len(ls) }

\* what the page extractor returns: page numbers from 1, the text of each page
MakePages(pls) ==
    [k \in 1..Len(pls) |-> [page_number |-> k, text |-> Join(pls[k], <<NL>>)]]

DetectInit ==
    /\ \E ls \in SeqSet(LineInputs, MaxTotalLines) : \E n \in 0..MaxPages :
          \E pls \in SplitPages(ls, n) : pages = MakePages(pls)
    /\ page_idx = 1
    /\ lines = <<>>
    /\ line_idx = 1
    /\ pc = "page"
    /\ current_section = None
    /\ current_subsection = None
    /\ buffer = <<>>
    /\ structured_elements = <<>>
    /\ ChunkIdle
    /\ HeaderIdle
    /\ AbstractIdle
    /\ RunIdle
    /\ BuildIdle
    /\ MainIdle
    /\ MdIdle

SpecDetect == DetectInit /\ [][DetectNext]_vars

-----------------------------------------------------------------------------
(* Inputs of _detect_major_header *)

NumGroups == { <<"1", ".">>, <<"2", "3", ".">> }

RECURSIVE Flatten(_)
Flatten(ss) == IF ss = <<>> THEN <<>> ELSE ss[1] \o Flatten(Tail(ss))

LineTails ==
    { <<"A", "b", "c">>, <<"a", "b", "c">>, <<"A", "b">>, <<"A", "B", " ", "C", "D">>,
      <<"A", "b", "c", ".">>, <<"2", " ", "A", "b", "c">> }

HeaderInit ==
    /\ \E gs \in SeqSet(NumGroups, MaxGroups) : \E sep \in {<<>>, <<" ">>} :
          \E tail \in LineTails : input_line = Flatten(gs) \o sep \o tail
    /\ header_info = Unset
    /\ structured_elements = <<>>
    /\ ChunkIdle
    /\ DetectIdle
    /\ AbstractIdle
    /\ RunIdle
    /\ BuildIdle
    /\ MainIdle
    /\ MdIdle

\* one call of _detect_major_header
Classify ==
    /\ header_info = Unset
    /\ header_info' = DetectMajorHeader(input_line)
    /\ UNCHANGED <<mdVars, mainVars, buildVars, input_line, structured_elements, chunkVars, detectVars, abstractVars,
                   runVars>>

SpecHeader == HeaderInit /\ [][Classify]_vars

-----------------------------------------------------------------------------
(* Inputs of run_recommended_queries and create_text_chunks *)

Pmids == { <<"7">>, <<"8">> }

TitleInputs == { <<"T">> }

\* an article without an abstract has the abstract ""
AbstractInputs ==
    { <<>>,
      <<"a", ".">>,
      <<"a", ".", " ", "b">>,
      <<"a", "a", ".", " ", "b", ".", " ", "c">> }

ArticleInputs == [title : TitleInputs, abstract : AbstractInputs]

\* what one search returns: ids of the database, each at most once
IdLists == {ids \in SeqSet(Pmids, Cardinality(Pmids)) :
               \A a, b \in 1..Len(ids) : a # b => ids[a] # ids[b]}

AbstractsInit ==
    /\ \E found \in SeqSet(IdLists, MaxQueries) : \E articles \in [Pmids -> ArticleInputs] :
          pubmed = [results |-> found, articles |-> articles]
    /\ q_idx = 1
    /\ all_abstracts = <<>>
    /\ saved_queries = <<>>
    /\ stage = "fetch"
    /\ abstracts = <<>>
    /\ max_chunk_length \in MinChunkLength..MaxChunkLength
    /\ a_idx = 1
    /\ text_chunks = <<>>
    /\ structured_elements = <<>>
    /\ ChunkIdle
    /\ DetectIdle
    /\ HeaderIdle
    /\ RunIdle
    /\ BuildIdle
    /\ MainIdle
    /\ MdIdle

AbstractsNext == RunQuery \/ SaveCombined \/ ChunkAbstract

SpecAbstracts == AbstractsInit /\ [][AbstractsNext]_vars

-----------------------------------------------------------------------------
(* Inputs of create_text_chunks called on a record list of its own: the list
   json.load returns, which nothing has filtered *)

TextChunksInit ==
    /\ \E recs \in LET LongTitle == [c \in 1..MaxChunkLength |-> "T"]
                       Records == [pmid : Pmids,
                                   title : TitleInputs \cup {LongTitle},
                                   abstract : AbstractInputs \cup {<<" ">>}]
                   IN  SeqSet(Records, MaxRecords) :
          abstracts = recs
    /\ max_chunk_length \in MinChunkLength..MaxChunkLength
    /\ stage = "process"
    /\ pubmed = [results |-> <<>>, articles |-> <<>>]
    /\ q_idx = 1
    /\ all_abstracts = <<>>
    /\ saved_queries = <<>>
    /\ a_idx = 1
    /\ text_chunks = <<>>
    /\ structured_elements = <<>>
    /\ ChunkIdle
    /\ DetectIdle
    /\ HeaderIdle
    /\ RunIdle
    /\ BuildIdle
    /\ MainIdle
    /\ MdIdle

SpecTextChunks == TextChunksInit /\ [][ChunkAbstract]_vars

-----------------------------------------------------------------------------
(* Inputs of main(): the rows of the playbook CSV and the pages of the PDF *)

Row(num, long, short, part, rid, ptype, prop) ==
    [LoincNumber |-> num, LongCommonName |-> long, ShortName |-> short,
     PartName |-> part, RID |-> rid, PartTypeName |-> ptype, Property |-> prop]

RowInputs ==
    { Row(<<"1", "-", "2">>, <<"C", "T">>, <<>>, <<"C", "h">>, <<"R", "2">>, <<"R", "a", "d", ".", "M">>, <<>>),
      Row(<<"1", "-", "2">>, <<"C", "T">>, <<>>, <<"A", "b">>, <<"R", "1">>, <<"R", "a", "d", ".", "A", ".", "B">>, <<"P">>),
      Row(<<"3", "-", "4">>, <<>>, <<"S">>, <<>>, <<>>, <<>>, <<>>) }

RunInit ==
    /\ processor = "TNMProcessor"
    /\ clock = 0
    /\ run = 1
    /\ phase = "loinc"
    /\ procedures \in SeqSet(RowInputs, MaxRows)
    /\ files = NoFiles
    /\ history = <<>>
    /\ \E ls \in SeqSet(LineInputs, MaxRunLines) : pages = MakePages(<<ls>>)
    /\ page_idx = 1
    /\ lines = <<>>
    /\ line_idx = 1
    /\ pc = "page"
    /\ current_section = None
    /\ current_subsection = None
    /\ buffer = <<>>
    /\ structured_elements = <<>>
    \* TNMProcessor compares with the literal 3000 where SemanticChunker reads
    \* self.max_chunk_size; for texts of a few characters the limit is drawn
    \* from the same small range
    /\ max_chunk_size \in MinMaxChunkSize..MaxMaxChunkSize
    /\ i = 1
    /\ chunks = <<>>
    /\ chunk_id = 0
    /\ origin = <<>>
    /\ log = <<>>
    /\ HeaderIdle
    /\ AbstractIdle
    /\ BuildIdle
    /\ MainIdle
    /\ MdIdle

RunNext == ProcessLoinc \/ RunDetect \/ RunChunk \/ ConvertTnm \/ EndRun

SpecRun == RunInit /\ [][RunNext]_vars

-----------------------------------------------------------------------------
(* Inputs of the builders *)

\* a playbook CSV of up to MaxCsvRows rows
PlaybookInit ==
    /\ LET RidOf(part) == IF part = <<"C", "T">> THEN <<"R", "I", "D", "2">>
                          ELSE IF part = <<"C", "h", "e", "s", "t">> THEN <<"R", "I", "D", "1">> ELSE <<>>
           \* the code 3-4 stands in the file without a long common name
           NameOf(num) == IF num = <<"1", "-", "2">> THEN <<"N">> ELSE <<>>
           PlaybookRows ==
               {PlaybookRow(rw[1], NameOf(rw[1]), PartTypes[rw[2]], rw[3], RidOf(rw[3])) :
                   rw \in { <<<<"1", "-", "2">>, 1, <<"C", "T">>>>, <<<<"1", "-", "2">>, 1, <<"C", "h", "e", "s", "t">>>>, <<<<"1", "-", "2">>, 1, <<>> >>,
                            <<<<"1", "-", "2">>, 4, <<"C", "T">>>>, <<<<"1", "-", "2">>, 2, <<"C", "h", "e", "s", "t">>>>, <<<<"1", "-", "2">>, 3, <<"C", "h", "e", "s", "t">>>>,
                            <<<<"3", "-", "4">>, 1, <<"C", "T">>>>, <<<<"3", "-", "4">>, 4, <<"C", "h", "e", "s", "t">>>>, <<<<"3", "-", "4">>, 3, <<>> >> }}
       IN  csv_rows \in SeqSet(PlaybookRows, MaxCsvRows)
    /\ row_idx = 1
    /\ build_pc = "rows"
    /\ procedures_dict = <<>>
    /\ owl_classes = <<>>
    /\ cls_idx = 1
    /\ terms = <<>>
    /\ owl_idx = 1
    /\ owl_terms = <<>>
    /\ documents = <<>>

\* an OWL file of up to MaxClasses classes with up to MaxChildren children in all
OwlInit ==
    /\ LET Elem(tag, text, resource) == [tag |-> tag, text |-> text, resource |-> resource]
           ChildInputs ==
               { Elem("RID:Synonym", <<"C", "T">>, <<>>),
                 Elem("RID:Synonym", <<" ", "C", "T">>, <<>>),
                 Elem("obo:hasExactSynonym", <<"X">>, <<>>),
                 Elem("RID:Acronym", <<"C", "T">>, <<>>),
                 Elem("rdfs:subClassOf", <<>>, <<"h", "t", "t", "p", ":", "/", "/", "w", "w", "w", ".", "r", "a", "d", "l", "e", "x", ".", "o", "r", "g", "/", "R", "I", "D", "/", "R", "I", "D", "1">>),
                 Elem("rdfs:subClassOf", <<>>, <<"h", "t", "t", "p", ":", "/", "/", "w", "w", "w", ".", "r", "a", "d", "l", "e", "x", ".", "o", "r", "g", "/", "R", "I", "D", "/", "R", "I", "D", "2">>) }
           ClassHeads ==
               { [about |-> <<"h", "t", "t", "p", ":", "/", "/", "w", "w", "w", ".", "r", "a", "d", "l", "e", "x", ".", "o", "r", "g", "/", "R", "I", "D", "/", "R", "I", "D", "7">>, preferred_name |-> <<"C", "T">>],
                 [about |-> <<"h", "t", "t", "p", ":", "/", "/", "w", "w", "w", ".", "r", "a", "d", "l", "e", "x", ".", "o", "r", "g", "/", "R", "I", "D", "/", "R", "I", "D", "7">>, preferred_name |-> <<>>],
                 [about |-> <<"h", "t", "t", "p", ":", "/", "/", "w", "w", "w", ".", "w", "3", ".", "o", "r", "g", "/", "2", "0", "0", "2", "/", "0", "7", "/", "o", "w", "l", "#", "T", "h", "i", "n", "g">>, preferred_name |-> <<>>] }
       IN  \E flat \in SeqSet(ChildInputs, MaxChildren) : \E n \in 1..MaxClasses :
             \E parts \in SplitPages(flat, n) : \E heads \in [1..n -> ClassHeads] :
                 owl_classes = [k \in 1..n |->
                                   [about |-> heads[k].about,
                                    preferred_name |-> heads[k].preferred_name,
                                    children |-> parts[k]]]
    /\ cls_idx = 1
    /\ terms = <<>>
    /\ owl_idx = 1
    /\ owl_terms = <<>>
    /\ csv_rows = <<>>
    /\ row_idx = 1
    /\ build_pc = "idle"
    /\ procedures_dict = <<>>
    /\ documents = <<>>

BuildInit ==
    /\ PlaybookInit \/ OwlInit
    /\ structured_elements = <<>>
    /\ ChunkIdle
    /\ DetectIdle
    /\ HeaderIdle
    /\ AbstractIdle
    /\ RunIdle
    /\ MainIdle
    /\ MdIdle

BuildNext ==
    \/ ParseRow
    \/ ConvertSets
    \/ EnrichProcedures
    \/ CreateLoincDocuments
    \/ ParseRadlexClass
    \/ ParseOwlClass

SpecBuild == BuildInit /\ [][BuildNext]_vars

-----------------------------------------------------------------------------
(* Inputs of main() *)

\* any data directory (RadLex.owl lies in the extracted directory), and at most
\* one source whose processor raises
MainInit ==
    /\ data_dir \in {d \in [{"radlex_dir", "radlex_owl", "loinc_csv", "loinc_zip",
                             "tnm_pdf", "recist_pdf"} -> BOOLEAN] :
                        d.radlex_owl => d.radlex_dir}
    /\ faults \in {{}} \cup {{s} : s \in {"radlex", "loinc", "tnm", "recist"}}
    /\ main_pc = "radlex"
    /\ results = <<>>
    /\ summary = NoSummary
    /\ attempted = <<>>
    /\ structured_elements = <<>>
    /\ ChunkIdle
    /\ DetectIdle
    /\ HeaderIdle
    /\ AbstractIdle
    /\ RunIdle
    /\ BuildIdle
    /\ MdIdle

MainNext == RadlexBlock \/ LoincBlock \/ TnmBlock \/ RecistBlock \/ WriteSummary

SpecMain == MainInit /\ [][MainNext]_vars

\* main() runs on its own: a block that can be taken is taken
SpecMainLive == SpecMain /\ WF_vars(MainNext)

-----------------------------------------------------------------------------
(* Inputs of MarkdownProcessor.create_semantic_chunks: element lists as        *)
(* parse_markdown_structure builds them                                        *)

MdInit ==
    /\ LET MdInputs ==
               {MdElement("header", lv, << <<"S", "B", "C", "N", "X">>[lv] >>) : lv \in 1..5}
               \cup { MdElement("table", 0, <<"|", "a", "|">>),
                      MdElement("text", 0, <<"n", "o", "t", "e">>),
                      MdElement("text", 0, [k \in 1..51 |-> "x"]) }
       IN  elements \in SeqSet(MdInputs, MaxMdElems) \ {<<>>}
    /\ md_i = 1
    /\ md_chunks = <<>>
    /\ md_section = None
    /\ md_subsection = None
    /\ md_subsubsection = None
    /\ structured_elements = <<>>
    /\ ChunkIdle
    /\ DetectIdle
    /\ HeaderIdle
    /\ AbstractIdle
    /\ RunIdle
    /\ BuildIdle
    /\ MainIdle

MdNext == MdHeaderStep \/ MdStationStep \/ MdTableStep \/ MdTextStep

SpecMd == MdInit /\ [][MdNext]_vars

-----------------------------------------------------------------------------
(* Properties of create_semantic_chunks *)

ChunkIdx == 1..Len(chunks)

HeaderIdx(elems) == {k \in 1..Len(elems) : elems[k].type = "header"}

Max(S) == CHOOSE x \in S : \A y \in S : y <= x

\* the last header before position k (0 when there is none)
LastHeaderBefore(elems, k) ==
    LET before == {h \in HeaderIdx(elems) : h < k}
    IN  IF before = {} THEN 0 ELSE Max(before)

\* the headers whose level is not above the level of any header before them
OutermostIdx(elems) ==
    {h \in HeaderIdx(elems) : \A g \in HeaderIdx(elems) : g < h => elems[h].level <= elems[g].level}

\* the last such header before position k (0 when there is none)
LastOutermostBefore(elems, k) ==
    LET before == {h \in OutermostIdx(elems) : h < k}
    IN  IF before = {} THEN 0 ELSE Max(before)

TextAt(elems, h) == IF h = 0 THEN None ELSE elems[h].text

\* C1: every chunk whose section is not null has a text that starts with the
\* section header string, for single-chunk sections and for every sub-chunk
\* of a split section.
C1_HeaderPrefix ==
    \A c \in ChunkIdx :
        chunks[c].section # None => StartsWith(chunks[c].text, chunks[c].section)

\* C1 witness: a finished run that split a section into at least two
\* sub-chunks, one of them holding two paragraphs.
C1_Witness ==
    /\ ChunkDone
    /\ \E c, d \in ChunkIdx :
          /\ c # d
          /\ origin[c].split /\ origin[d].split /\ origin[c].hdr = origin[d].hdr
          /\ Len(origin[c].paras) >= 2
          /\ chunks[c].section # None /\ chunks[d].section # None

\* C2: every chunk record has char_count equal to the length of its text,
\* the sub-chunks of a split section included.
C2_CharCountIsLen ==
    \A c \in ChunkIdx : chunks[c].char_count = Len(chunks[c].text)

\* C3: every sub-chunk of a split section has char_count <= max_chunk_size,
\* except when the header plus the first paragraph alone already exceeds
\* max_chunk_size, and then the overflow is logged.
C3_SizeBoundOrLogged ==
    \A c \in ChunkIdx :
        origin[c].split =>
            \/ chunks[c].char_count <= max_chunk_size
            \/ /\ Len(chunks[c].section) + 2 + Len(origin[c].paras[1]) > max_chunk_size
               /\ log # <<>>

\* C11: when a section is split and a paragraph of its body is by itself longer
\* than max_chunk_size, the paragraph is split further at sentence boundaries,
\* so no sub-chunk holds a paragraph longer than max_chunk_size.
C11_LongParagraphSplit ==
    \A c \in ChunkIdx :
        origin[c].split =>
            \A k \in 1..Len(origin[c].paras) : Len(origin[c].paras[k]) <= max_chunk_size

\* the example "header, 4000 characters of body, max_chunk_size = 3000" at the
\* scale of the model: the largest limit, and a body 4/3 as long as what one
\* chunk holds beside the header and its separator
ExampleMaxSize == MaxMaxChunkSize

ExampleBodyLen == (4 * (ExampleMaxSize - Len(HeaderTexts[1]) - 2)) \div 3

IsExample ==
    /\ max_chunk_size = ExampleMaxSize
    /\ Len(structured_elements) >= 2
    /\ structured_elements[1].type = "header"
    /\ structured_elements[1].text = HeaderTexts[1]
    /\ \A k \in 2..Len(structured_elements) : structured_elements[k].type = "content"
    /\ Len(Join([k \in 1..(Len(structured_elements) - 1) |->
                    structured_elements[k + 1].text], ParaSep)) = ExampleBodyLen

\* C12: a header followed by body content of the example's total length, with
\* the example's limit, gives exactly 2 chunks, both starting with the header
\* text, whatever the way the body is divided into paragraphs.
C12_ExactlyTwoChunks ==
    (ChunkDone /\ IsExample) =>
        /\ Len(chunks) = 2
        /\ \A c \in ChunkIdx : StartsWith(chunks[c].text, structured_elements[1].text)

\* C9 as stated: the chunk holding a content element has as its section the
\* nearest header that precedes the element, so content after a nested header
\* is chunked under that nested header.
C9_NearestHeader ==
    \A c \in ChunkIdx : \A k \in origin[c].span :
        chunks[c].section = TextAt(structured_elements, LastHeaderBefore(structured_elements, k))

\* C9 amended: the chunk holding a content element has as its section the
\* last header before the element whose level is not above the level of any
\* header before it (the header that opened the span); a nested header inside
\* the span does not take over its content.
C9_SpanOpenerSection ==
    \A c \in ChunkIdx : \A k \in origin[c].span :
        /\ origin[c].hdr = LastOutermostBefore(structured_elements, k)
        /\ chunks[c].section = TextAt(structured_elements, origin[c].hdr)

\* C9 witness: a finished run where a content element that follows a nested
\* header was chunked under the outer header.
C9_Witness ==
    /\ ChunkDone
    /\ \E c \in ChunkIdx : \E k \in origin[c].span :
          /\ origin[c].hdr # 0
          /\ LastHeaderBefore(structured_elements, k) > origin[c].hdr

\* a level-2 header with content right after it and no level-1 header before it
OrphanLevel2(elems) ==
    {k \in HeaderIdx(elems) :
        /\ elems[k].level = 2
        /\ \A g \in HeaderIdx(elems) : g < k => elems[g].level # 1
        /\ k < Len(elems)
        /\ elems[k + 1].type = "content"}

\* C10 as stated: for a level-2 header with following content and no
\* preceding level-1 header, a chunk is emitted whose section is null and
\* whose subsection is that header's text.
C10_NullSection ==
    ChunkDone =>
        \A k \in OrphanLevel2(structured_elements) :
            \E c \in ChunkIdx :
                /\ chunks[c].section = None
                /\ chunks[c].subsection = structured_elements[k].text

\* the level-3 headers of the span opened by the level-2 header at k
SubHeaders(elems, k) ==
    {h \in HeaderIdx(elems) :
        /\ h > k
        /\ elems[h].level = 3
        /\ \A g \in HeaderIdx(elems) : (k < g /\ g < h) => elems[g].level > 2}

\* C10 amended: when the run has reached the end of the list, for a level-2
\* header with following content and no preceding level-1 header a chunk has
\* been emitted whose section is that header's text and whose subsection is
\* null or the last level-3 header of its span.
C10_OrphanIsSection ==
    /\ i \in 1..(Len(structured_elements) + 1)
    /\ ChunkDone =>
          \A k \in OrphanLevel2(structured_elements) :
              \E c \in ChunkIdx :
                  /\ origin[c].hdr = k
                  /\ chunks[c].section = structured_elements[k].text
                  /\ chunks[c].subsection =
                        IF SubHeaders(structured_elements, k) = {} THEN None
                        ELSE structured_elements[Max(SubHeaders(structured_elements, k))].text

\* C10 witness: a finished run on a list that holds such a level-2 header,
\* with a chunk emitted for it.
C10_Witness ==
    /\ ChunkDone
    /\ \E k \in OrphanLevel2(structured_elements) :
          \E c \in ChunkIdx : origin[c].hdr = k /\ chunks[c].subsection # None

\* the position at which the span of the header at h ends: the next header
\* whose level is not above its level, or the end of the list
SpanClose(elems, h) ==
    LET closers == {k \in HeaderIdx(elems) : k > h /\ elems[k].level <= elems[h].level}
    IN  IF closers = {} THEN Len(elems) + 1
        ELSE CHOOSE k \in closers : \A g \in closers : k <= g

\* the texts of the content elements between the header at h and that position
SpanTexts(elems, h) ==
    LET inside == SelectSeq(SubSeq(elems, h + 1, SpanClose(elems, h) - 1),
                            LAMBDA e : e.type = "content")
    IN  [k \in 1..Len(inside) |-> inside[k].text]

\* the text of the last header one level below between the two, if any
SpanSubsection(elems, h) ==
    LET subs == {k \in HeaderIdx(elems) :
                    /\ h < k
                    /\ k < SpanClose(elems, h)
                    /\ elems[k].level = elems[h].level + 1}
    IN  IF subs = {} THEN None ELSE elems[Max(subs)].text

\* the chunks the step has appended to chunks
NewChunks == SubSeq(chunks', Len(chunks) + 1, Len(chunks'))

\* what the chunks hold after the header and its separator, joined again
BodyOf(new, section_header) ==
    Join([k \in 1..Len(new) |->
             SubSeq(new[k].text, Len(section_header) + 3, Len(new[k].text))], ParaSep)

\* C23: when the cursor is on a header of level L, the section body is the
\* double-newline join, in order, of the texts of exactly the content elements
\* between that header and the next header of level <= L (or the end of the
\* list); headers inside the span add no text, the last header of level L+1 in
\* the span is the subsection, and the cursor resumes at the closing header.
C23_SpanIsSectionBody ==
    [][ (i <= Len(structured_elements) /\ structured_elements[i].type = "header" /\ i' # i) =>
          LET texts == SpanTexts(structured_elements, i)
          IN  /\ i' = SpanClose(structured_elements, i)
              /\ (texts = <<>>) = (NewChunks = <<>>)
              /\ texts # <<>> =>
                    /\ BodyOf(NewChunks, structured_elements[i].text) = Join(texts, ParaSep)
                    /\ \A c \in 1..Len(NewChunks) :
                          NewChunks[c].subsection = SpanSubsection(structured_elements, i) ]_vars

\* C23 witness: a finished run with a chunk whose content stands after a header
\* one level below, which gave the subsection, and whose span was closed by a
\* header and not by the end of the list
C23_Witness ==
    /\ ChunkDone
    /\ \E c \in ChunkIdx :
          /\ origin[c].hdr # 0
          /\ origin[c].span # {}
          /\ chunks[c].subsection # None
          /\ LastHeaderBefore(structured_elements, Max(origin[c].span)) > origin[c].hdr
          /\ SpanClose(structured_elements, origin[c].hdr) <= Len(structured_elements)

\* the chunk holds, after the header and its separator, text that is not blank
HoldsBody(chunk) ==
    /\ StartsWith(chunk.text, chunk.section \o ParaSep)
    /\ Strip(SubSeq(chunk.text, Len(chunk.section) + 3, Len(chunk.text))) # <<>>

\* C25: create_semantic_chunks never emits a chunk that holds only the bare
\* header: a header with no content element in its span emits no chunk, and
\* every chunk of a section, whole or sub-chunk of a split, holds body text
\* after the header, also when the first paragraph exceeds max_chunk_size.
C25_NoBareHeaderChunk ==
    /\ [](\A c \in ChunkIdx : chunks[c].section # None => HoldsBody(chunks[c]))
    /\ [][ ( /\ i <= Len(structured_elements)
             /\ structured_elements[i].type = "header"
             /\ SpanTexts(structured_elements, i) = <<>> )
           => chunks' = chunks ]_vars

\* C25 witness: a finished run with a header whose span holds no content and
\* with a split section whose first paragraph is longer than max_chunk_size
C25_Witness ==
    /\ ChunkDone
    /\ \E h \in HeaderIdx(structured_elements) : SpanTexts(structured_elements, h) = <<>>
    /\ \E c \in ChunkIdx :
          /\ origin[c].split
          /\ Len(origin[c].paras[1]) > max_chunk_size
          /\ \A d \in ChunkIdx : (d < c) => origin[d].hdr # origin[c].hdr

\* the positions of the content elements of the span of the header at h, in order
SpanContentIdx(elems, h) ==
    SelectSeq([k \in 1..(SpanClose(elems, h) - h - 1) |-> h + k],
              LAMBDA k : elems[k].type = "content")

\* the paragraphs of the span of the header at h, in order, each with the
\* position of the content element it stands in and its number in the element
SpanParas(elems, h) ==
    LET idx == SpanContentIdx(elems, h)
    IN  Flatten([n \in 1..Len(idx) |->
            LET ps == Split(elems[idx[n]].text, ParaSep)
            IN  [j \in 1..Len(ps) |-> [para |-> ps[j], elem |-> idx[n], no |-> j]]])

\* the number of paragraphs in the chunks of the same section before chunk c
RECURSIVE ParasBefore(_)
ParasBefore(c) ==
    IF c = 1 \/ origin[c - 1].hdr # origin[c].hdr THEN 0
    ELSE ParasBefore(c - 1) + Len(origin[c - 1].paras)

\* the paragraphs of a content element that has a chunk of its own
OwnParas(elems, e) ==
    LET ps == Split(elems[e].text, ParaSep)
    IN  [j \in 1..Len(ps) |-> [para |-> ps[j], elem |-> e, no |-> j]]

\* the paragraphs chunk c is to hold, with their elements: all those of its
\* section, for a sub-chunk the next ones of its section after those of the
\* sub-chunks before it, for a headerless chunk those of its element
ParasOfChunk(c) ==
    IF origin[c].hdr = 0
        THEN OwnParas(structured_elements, CHOOSE e \in origin[c].span : TRUE)
    ELSE LET all == SpanParas(structured_elements, origin[c].hdr)
         IN  IF origin[c].split
             THEN SubSeq(all, ParasBefore(c) + 1, ParasBefore(c) + Len(origin[c].paras))
             ELSE all

\* the list of ParasOfChunk of the first c chunks
RECURSIVE ChunkParasUpTo(_)
ChunkParasUpTo(c) ==
    IF c = 0 THEN <<>> ELSE Append(ChunkParasUpTo(c - 1), ParasOfChunk(c))

ChunkParas == ChunkParasUpTo(Len(chunks))

\* the content elements of a list of paragraphs
Contributors(held) == {held[j].elem : j \in 1..Len(held)}

\* the text of chunk c is made of the paragraphs held, after the header of its
\* section if it has one
TextIsOfParas(c, held) ==
    chunks[c].text =
        Join((IF origin[c].hdr = 0 THEN <<>>
              ELSE <<structured_elements[origin[c].hdr].text>>)
             \o [j \in 1..Len(held) |-> held[j].para], ParaSep)

\* C26: the chunks are in document order: when chunk a comes before chunk b,
\* every content element contributing to a comes no later in the element list
\* than every content element contributing to b, and the ids chunk_0, chunk_1,
\* ... are assigned consecutively in that order (stated of the returned list).
C26_DocumentOrder ==
    ChunkDone =>
        LET parts == ChunkParas
            from == [c \in ChunkIdx |-> Contributors(parts[c])]
        IN  /\ \A c \in ChunkIdx :
                  /\ chunks[c].id = <<"chunk_", c - 1>>
                  /\ TextIsOfParas(c, parts[c])
                  /\ from[c] # {}
            /\ \A a, b \in ChunkIdx :
                  a < b => \A x \in from[a] : \A y \in from[b] : x <= y

\* C26 witness: a finished run with a content chunk before the first header, two
\* sub-chunks of a split section that share a content element
C26_Witness ==
    /\ ChunkDone
    /\ Len(chunks) >= 3
    /\ origin[1].hdr = 0
    /\ \E a, b \in ChunkIdx :
          /\ a < b
          /\ origin[a].split /\ origin[b].split
          /\ Contributors(ChunkParas[a]) \cap Contributors(ChunkParas[b]) # {}

\* C28: create_semantic_chunks terminates on every finite element list, lists
\* with elements that are neither header nor content and lists that end inside
\* a section span included: every iteration of the outer loop moves the cursor
\* forward, the inner span loop leaves it past the header and at the end of the
\* list at most, and the run reaches the end of the list.
C28_Terminates ==
    /\ (structured_elements # <<>>) ~> ChunkDone
    /\ [][structured_elements # <<>> =>
              /\ i' > i
              /\ i' <= Len(structured_elements) + 1
              /\ structured_elements[i].type = "header"
                     => i' = SpanClose(structured_elements, i)]_vars

\* C28 witness: a finished run on a list that holds an element of another type
\* and ends inside the span of its last header
C28_Witness ==
    /\ ChunkDone
    /\ \E k \in 1..Len(structured_elements) :
           structured_elements[k].type \notin {"header", "content"}
    /\ \E h \in HeaderIdx(structured_elements) :
           /\ SpanClose(structured_elements, h) = Len(structured_elements) + 1
           /\ h < Len(structured_elements)
           /\ origin # <<>>
           /\ origin[Len(origin)].hdr = h

\* the cursor part of C28 alone, which holds for every max_chunk_size
CursorAdvances ==
    [][structured_elements # <<>> =>
          /\ i' > i
          /\ i' <= Len(structured_elements) + 1]_vars

\* the same of the cursor of MarkdownProcessor.create_semantic_chunks
MdCursorAdvances ==
    [][elements # <<>> => (md_i' > md_i /\ md_i' <= Len(elements) + 1)]_vars

\* the paragraphs of a list, each named by its content element and its number
\* in the element
Held(held) == {<<held[j].elem, held[j].no>> : j \in 1..Len(held)}

\* the paragraphs of the content elements of the list
AllParagraphs ==
    UNION { {<<e, j>> : j \in 1..Len(Split(structured_elements[e].text, ParaSep))} :
              e \in {k \in 1..Len(structured_elements) : structured_elements[k].type = "content"} }

\* C29: create_semantic_chunks neither drops nor duplicates content: in the
\* returned list every paragraph of every content element stands in exactly one
\* chunk (the chunk of its section, one sub-chunk of a split section, or its own
\* chunk when no header precedes it), whatever the paragraph lengths are
\* relative to max_chunk_size.
C29_NoParagraphLostOrRepeated ==
    ChunkDone =>
        LET parts == ChunkParas
            \* the paragraphs of all chunks, one after the other
            all == Flatten(parts)
        IN  /\ \A c \in ChunkIdx : TextIsOfParas(c, parts[c])
            /\ Held(all) = AllParagraphs
            /\ Len(all) = Cardinality(AllParagraphs)

\* C29 witness: a finished run with a content element that has a chunk of its
\* own and a split section whose sub-chunks share a content element, one of them
\* longer than max_chunk_size because its paragraph does not fit with the header
C29_Witness ==
    /\ ChunkDone
    /\ \E c \in ChunkIdx : origin[c].hdr = 0
    /\ \E a, b \in ChunkIdx :
          /\ a < b
          /\ origin[a].split /\ origin[b].split
          /\ \E p \in Held(ChunkParas[a]), q \in Held(ChunkParas[b]) : p[1] = q[1]
          /\ Len(chunks[b].text) > max_chunk_size

-----------------------------------------------------------------------------
(* Properties of detect_structure *)

NonBlank(ls) == SelectSeq(ls, LAMBDA l : l # <<>>)

\* the stripped non-blank lines of all pages, in order
InputLines ==
    NonBlank(Flatten([p \in 1..Len(pages) |->
        LET ls == Split(pages[p].text, <<NL>>) IN [k \in 1..Len(ls) |-> Strip(ls[k])]]))

\* the non-blank lines of the texts of the elements of the given types, in order
ElementLines(types) ==
    NonBlank(Flatten([e \in 1..Len(structured_elements) |->
        IF structured_elements[e].type \in types
        THEN Split(structured_elements[e].text, <<NL>>) ELSE <<>>]))

ElemIdx == 1..Len(structured_elements)

\* the section in force at position j of the element list: the last level-1
\* header before it, whatever its page
SectionInForce(j) ==
    LET hs == {h \in ElemIdx : h < j /\ structured_elements[h].type = "header"
                                     /\ structured_elements[h].level = 1}
    IN  IF hs = {} THEN None ELSE structured_elements[Max(hs)].text

\* the subsection in force at position j: the last level-2 header before it
\* that follows the last level-1 header
SubsectionInForce(j) ==
    LET hs == {h \in ElemIdx : h < j /\ structured_elements[h].type = "header"
                                     /\ structured_elements[h].level \in {1, 2}}
    IN  IF hs = {} \/ structured_elements[Max(hs)].level = 1 THEN None
        ELSE structured_elements[Max(hs)].text

\* C7: a content element of page k+1 that precedes every header of that page
\* carries the section and subsection that were current at the end of page k.
C7_ContextPersists ==
    \A j \in ElemIdx :
        LET e == structured_elements[j] IN
        ( /\ e.type = "content"
          /\ e.page > 1
          /\ \A h \in ElemIdx : (h < j /\ structured_elements[h].type = "header")
                                   => structured_elements[h].page < e.page )
        => /\ e.section = SectionInForce(j)
           /\ e.subsection = SubsectionInForce(j)

\* the stripped lines of page p
PageLines(p) ==
    LET ls == Split(pages[p].text, <<NL>>) IN [k \in 1..Len(ls) |-> Strip(ls[k])]

\* the non-blank lines of the elements that carry the page number of page p
PageElementLines(p) ==
    NonBlank(Flatten([e \in 1..Len(structured_elements) |->
        IF structured_elements[e].page = pages[p].page_number
        THEN Split(structured_elements[e].text, <<NL>>) ELSE <<>>]))

\* the elements the step has appended to structured_elements
NewElements ==
    SubSeq(structured_elements', Len(structured_elements) + 1, Len(structured_elements'))

\* the loop is on a line that the header test accepts
OnHeaderLine ==
    /\ pc = "line"
    /\ line_idx <= Len(lines)
    /\ Strip(lines[line_idx]) # <<>>
    /\ DetectHeader(Strip(lines[line_idx])) # NoHeader

\* the loop has passed the last line of the page
AtPageEnd == pc = "line" /\ line_idx > Len(lines)

\* the text is not empty, has no blank line at its start or its end and no two
\* blank lines in a row
WellFormedContent(text) ==
    /\ text # <<>>
    /\ text[1] # NL
    /\ text[Len(text)] # NL
    /\ ~Contains(text, <<NL, NL, NL>>)

\* C24: in detect_structure a buffer that holds lines is flushed as exactly one
\* content element when a header line is met (before the header element) or
\* when the page ends, and no other step adds a content element; every content
\* element has a non-empty text without a blank line at its start or end and
\* without two blank lines in a row; the elements of a page hold the lines of
\* that page and of no other.
C24_FlushAndContentShape ==
    /\ [](\A e \in ElemIdx :
             structured_elements[e].type = "content" =>
                 WellFormedContent(structured_elements[e].text))
    /\ []((pc = "page") => \A p \in 1..(page_idx - 1) :
             PageElementLines(p) = NonBlank(PageLines(p)))
    /\ [][ LET content == SelectSeq(NewElements, LAMBDA e : e.type = "content")
           IN  IF OnHeaderLine \/ AtPageEnd
               THEN /\ Len(content) = (IF buffer # <<>> THEN 1 ELSE 0)
                    /\ content # <<>> =>
                          /\ NewElements[1] = content[1]
                          /\ content[1].page = pages[page_idx].page_number
                          /\ NonBlank(Split(content[1].text, <<NL>>)) = NonBlank(buffer)
                    /\ buffer' = <<>> \/ AtPageEnd
               ELSE NewElements = <<>> ]_vars

\* C24 witness: a finished run over two pages, the first with a run of two
\* blank lines between two text lines, which one content element of that page
\* holds with a single paragraph break
C24_Witness ==
    /\ DetectDone
    /\ Len(pages) = 2
    /\ \E k \in 1..(Len(PageLines(1)) - 3) :
          /\ PageLines(1)[k] # <<>>
          /\ PageLines(1)[k + 1] = <<>>
          /\ PageLines(1)[k + 2] = <<>>
          /\ PageLines(1)[k + 3] # <<>>
    /\ \E e \in ElemIdx :
          /\ structured_elements[e].type = "content"
          /\ structured_elements[e].page = 1
          /\ Contains(structured_elements[e].text, ParaSep)

-----------------------------------------------------------------------------
(* Properties of _detect_major_header *)

\* the number of dot-terminated groups of the number that starts the line
DotGroups(l) ==
    LET sp == {k \in 1..Len(l) : IsSpaceCh(l[k])}
        first == IF sp = {} THEN Len(l) + 1 ELSE CHOOSE k \in sp : \A m \in sp : k <= m
    IN  CountChar(SubSeq(l, 1, first - 1), ".")

\* C8: a line classified as a numbered section header whose number has n
\* dot-terminated groups is given level min(n, 3).
C8_NumberedLevel ==
    header_info.pattern = "numbered" => header_info.level = Min(DotGroups(input_line), 3)

-----------------------------------------------------------------------------
(* Properties of chunk ids and of repeated runs *)

\* C4: within one output file all chunk_id values are pairwise distinct, for any
\* input: the sequence-numbered ids of create_semantic_chunks, and the ids
\* PMID:<pmid>_chunk_<index> that create_text_chunks gives the records of the
\* combined all_abstracts list, which concatenates the results of several queries
C4_UniqueChunkIds ==
    /\ \A a, b \in 1..Len(chunks) : a # b => chunks[a].id # chunks[b].id
    /\ \A a, b \in 1..Len(text_chunks) :
          a # b => text_chunks[a].chunk_id # text_chunks[b].chunk_id

\* C5: running the pipeline twice on unchanged input produces identical chunk
\* files (same ids, same order, same text, same serialized record content),
\* whatever the time of each run
C5_ByteIdenticalReruns ==
    \A a, b \in 1..Len(history) : history[a] = history[b]

-----------------------------------------------------------------------------
(* Properties of the builders *)

RowsOf(c) == {k \in 1..Len(csv_rows) : csv_rows[k].LoincNumber = c}

FacetUnion(proc) == UNION {Range(proc[f]) : f \in Range(FacetKeys)}

\* C13: for every code of the returned dict, the union of the procedure's facet
\* lists equals the set of the non-empty PartName values of all rows sharing the
\* code, whatever the PartTypeName of a row.
C13_FacetsComplete ==
    build_pc = "returned" =>
        \A c \in DOMAIN procedures_dict :
            FacetUnion(procedures_dict[c]) =
                {csv_rows[k].PartName : k \in RowsOf(c)} \ {<<>>}

NoRepeat(list) == \A a, b \in 1..Len(list) : a # b => list[a] # list[b]

\* the position at which the value v is first seen in the sequence seen
FirstAt(seen, v) == CHOOSE k \in 1..Len(seen) : seen[k] = v /\ \A j \in 1..(k - 1) : seen[j] # v

\* list holds every value of seen exactly once, and its values stand in the
\* order in which they are first seen
FirstSeenOrder(list, seen) ==
    /\ NoRepeat(list)
    /\ Range(list) = Range(seen)
    /\ \A a, b \in 1..Len(list) :
           a < b => FirstAt(seen, list[a]) < FirstAt(seen, list[b])

\* the non-empty part names of the rows of code c that go to facet f, in row order
FacetSource(c, f) ==
    LET rows == SelectSeq(csv_rows, LAMBDA r : r.LoincNumber = c /\ r.PartName # <<>>
                                               /\ FacetOf(r.PartTypeName, r.PartName) = f)
    IN  [k \in 1..Len(rows) |-> rows[k].PartName]

\* the non-empty texts of the children with one of the tags, in document order
TagSource(cls, tags) ==
    LET found == SelectSeq(cls.children, LAMBDA e : e.tag \in tags /\ e.text # <<>>)
    IN  [k \in 1..Len(found) |-> found[k].text]

\* the RIDs named by the rdfs:subClassOf children, in document order
ParentSource(cls) ==
    LET found == SelectSeq(cls.children,
                           LAMBDA e : e.tag = "rdfs:subClassOf" /\ e.resource # <<>>)
    IN  [k \in 1..Len(found) |-> LastPart(found[k].resource)]

\* the values _parse_owl reads for the synonym list, in the order it reads them:
\* the stripped RID:Synonym texts, the first acronym unless it is the label,
\* the stripped texts of the Synonym elements of any namespace
OwlSynonymSource(cls) ==
    LET strip(q) == SelectSeq([k \in 1..Len(q) |-> Strip(q[k])], LAMBDA v : v # <<>>)
        acronyms == strip(TagSource(cls, {"RID:Acronym"}))
        first == SelectSeq(cls.children, LAMBDA e : e.tag = "RID:Acronym")
    IN  strip(TagSource(cls, {"RID:Synonym"}))
        \o (IF first # <<>> /\ Strip(first[1].text) \notin {<<>>, Strip(cls.preferred_name)}
            THEN <<Strip(first[1].text)>> ELSE <<>>)
        \o strip(TagSource(cls, {"RID:Synonym", "obo:hasExactSynonym"}))

FacetKeywords ==
    << <<"M", "o", "d", "a", "l", "i", "t", "y">>, <<"A", "n", "a", "t", "o", "m", "i", "c">>,
       <<"L", "a", "t", "e", "r", "a", "l", "i", "t", "y">>, <<"V", "i", "e", "w">>,
       <<"T", "i", "m", "i", "n", "g">>, <<"M", "a", "n", "e", "u", "v", "e", "r">>,
       <<"P", "h", "a", "r", "m", "a", "c", "e", "u", "t", "i", "c", "a", "l">>,
       <<"R", "e", "a", "s", "o", "n">>, <<"G", "u", "i", "d", "a", "n", "c", "e">>,
       <<"S", "u", "b", "j", "e", "c", "t">> >>

\* the keywords found in the part type, by their places in the order
MatchingTests(part_type) ==
    {k \in 1..Len(FacetKeywords) : Contains(part_type, FacetKeywords[k])}

\* the facet of the first keyword found in the part type; "none" when the part
\* type holds no keyword
FirstMatchFacet(part_type) ==
    IF MatchingTests(part_type) = {} THEN "none"
    ELSE LET k == CHOOSE m \in MatchingTests(part_type) :
                      \A n \in MatchingTests(part_type) : m <= n
         IN  IF k = 1 THEN (IF Contains(part_type, <<"S", "u", "b", "t", "y", "p", "e">>)
                            THEN "modality_subtype" ELSE "modality")
             ELSE IF k = 2 THEN (IF Contains(part_type, <<"F", "o", "c", "u", "s">>)
                                 THEN "imaging_focus" ELSE "anatomic_location")
             ELSE FacetKeys[k + 2]

\* the facet list f of the code's entry before the row is read: empty when the
\* code has no entry yet
ListBefore(code, f) ==
    IF code \in DOMAIN procedures_dict THEN procedures_dict[code][f] ELSE <<>>

\* reading the row at row_idx appends its part name to the facet list f of its
\* code and leaves the code's other facet lists as they are
RoutedTo(f) ==
    LET row == csv_rows[row_idx]
    IN  /\ f \in Range(FacetKeys)
        /\ \A g \in Range(FacetKeys) :
               procedures_dict'[row.LoincNumber][g] =
                   IF g = f THEN Append(ListBefore(row.LoincNumber, g), row.PartName)
                   ELSE ListBefore(row.LoincNumber, g)

\* a row with a part name is read
ReadsNamedRow ==
    /\ build_pc = "rows"
    /\ row_idx <= Len(csv_rows)
    /\ row_idx' = row_idx + 1
    /\ csv_rows[row_idx].PartName # <<>>

\* the rows of code c are the two rows of the example, in either order
IsChestCtExample(c) ==
    /\ Cardinality(RowsOf(c)) = 2
    /\ {<<csv_rows[k].PartTypeName, csv_rows[k].PartName>> : k \in RowsOf(c)} =
           {<<PartTypes[2], <<"C", "h", "e", "s", "t">>>>, <<PartTypes[1], <<"C", "T">>>>}

\* the procedure of the example and its one document
ChestCtOutcome(c) ==
    /\ procedures_dict[c].anatomic_location = << <<"C", "h", "e", "s", "t">> >>
    /\ procedures_dict[c].modality = << <<"C", "T">> >>
    /\ Cardinality({k \in 1..Len(documents) : documents[k].id = c}) = 1
    /\ \A k \in 1..Len(documents) :
           documents[k].id = c =>
               /\ <<"A", "n", "a", "t", "o", "m", "y", ":", " ", "C", "h", "e", "s", "t">>
                      \in Range(Split(documents[k].text, <<NL>>))
               /\ <<"M", "o", "d", "a", "l", "i", "t", "y", ":", " ", "C", "T">>
                      \in Range(Split(documents[k].text, <<NL>>))

\* C27: parse_loinc_playbook routes each row's non-empty PartName into exactly
\* one facet list, that of the first keyword found in PartTypeName in the order
\* Modality (with Subtype: modality_subtype), Anatomic (with Focus:
\* imaging_focus), Laterality, View, Timing, Maneuver, Pharmaceutical, Reason,
\* Guidance, Subject; and the two rows ("Rad.Anatomic Location", "Chest") and
\* ("Rad.Modality", "CT") of one code give one procedure with anatomic_location
\* ["Chest"], modality ["CT"] and the text lines "Anatomy: Chest" and
\* "Modality: CT".
C27_RoutedToOneFacet ==
    /\ [][ReadsNamedRow => RoutedTo(FirstMatchFacet(csv_rows[row_idx].PartTypeName))]_vars
    /\ [](build_pc = "documents" =>
             \A c \in DOMAIN procedures_dict : IsChestCtExample(c) => ChestCtOutcome(c))

\* the routing of the rows whose part type holds a keyword at least
RoutedWhenMatched ==
    [][(ReadsNamedRow /\ MatchingTests(csv_rows[row_idx].PartTypeName) # {})
           => RoutedTo(FirstMatchFacet(csv_rows[row_idx].PartTypeName))]_vars

\* a row with a part name whose part type holds no keyword goes to no facet list
UnmatchedRowDropped ==
    [][(ReadsNamedRow /\ MatchingTests(csv_rows[row_idx].PartTypeName) = {})
           => \A g \in Range(FacetKeys) :
                  procedures_dict'[csv_rows[row_idx].LoincNumber][g] =
                      ListBefore(csv_rows[row_idx].LoincNumber, g)]_vars

\* the example of C27 alone
ChestCtExampleHolds ==
    build_pc = "documents" =>
        \A c \in DOMAIN procedures_dict : IsChestCtExample(c) => ChestCtOutcome(c)

\* the example of C27 is built
ChestCtExampleBuilt ==
    build_pc = "documents" /\ \E c \in DOMAIN procedures_dict : IsChestCtExample(c)

-----------------------------------------------------------------------------
(* Properties of main() *)

AllSources == <<"radlex", "loinc", "tnm", "recist">>

\* C15: whatever a source block does, an exception included, every later source
\* is attempted, in the order radlex, loinc, tnm, recist, and the run reaches
\* the writing of the summary.
C15_AllSourcesAttempted ==
    <>(main_pc = "done" /\ summary # NoSummary /\ attempted = AllSources)

\* a finished run in which a source failed and a later one was processed
C15_Witness ==
    /\ main_pc = "done"
    /\ summary # NoSummary
    /\ attempted = AllSources
    /\ results["loinc"].status = "failed"
    /\ results["recist"].status = "success"

\* the texts the summary record holds
SummaryTexts ==
    Range(summary.status)
    \cup summary.output_files
    \cup (IF "tnm_details" \in DOMAIN summary THEN Range(summary["tnm_details"]) ELSE {})

\* C16: when main() has finished, the summary record holds for each of the four
\* sources exactly one status out of success, failed and skipped, and for every
\* failed source also the text of the failure reason.
C16_SummaryStatusAndReason ==
    main_pc = "done" =>
        /\ DOMAIN summary.status = Range(AllSources)
        /\ \A s \in Range(AllSources) :
               /\ summary.status[s] \in {"success", "failed", "skipped"}
               /\ summary.status[s] = "failed" => results[s].error \in SummaryTexts

\* C17: a source whose expected input file is absent (RadLex.owl, the LOINC CSV
\* and zip, the TNM PDF, the RECIST PDF) is recorded as skipped, not as failed.
C17_AbsentInputSkipped ==
    main_pc = "done" =>
        /\ ~data_dir.radlex_owl => summary.status["radlex"] = "skipped"
        /\ (~data_dir.loinc_csv /\ ~data_dir.loinc_zip) => summary.status["loinc"] = "skipped"
        /\ ~data_dir.tnm_pdf => summary.status["tnm"] = "skipped"
        /\ ~data_dir.recist_pdf => summary.status["recist"] = "skipped"

-----------------------------------------------------------------------------
(* Properties of create_text_chunks *)

\* the records create_text_chunks has finished, in order
Processed == SubSeq(abstracts, 1, a_idx - 1)

\* the chunks one record gives, whatever was emitted before it
ChunksOfRecord(rec) == AfterAbstract(<<>>, rec, max_chunk_length)

\* the records of the list whose chunks hold position k of text_chunks
RECURSIVE OwnerFrom(_, _)
OwnerFrom(r, k) ==
    IF r > Len(Processed) THEN 0
    ELSE LET n == Len(ChunksOfRecord(Processed[r]))
         IN  IF k <= n THEN r ELSE OwnerFrom(r + 1, k - n)

\* C18: no chunk is emitted for a record whose abstract text is empty or only
\* whitespace: every chunk of the list create_text_chunks builds belongs to a
\* record whose abstract, stripped, is not empty.
C18_NoChunkForEmptyAbstract ==
    stage = "process" =>
        \A k \in 1..Len(text_chunks) :
            LET r == OwnerFrom(1, k)
            IN  r # 0 /\ Strip(Processed[r].abstract) # <<>>

\* the chunks the step has appended to text_chunks
Emitted == SubSeq(text_chunks', Len(text_chunks) + 1, Len(text_chunks'))

\* C19: when create_text_chunks has finished one record and before it starts
\* the next, the n chunks emitted for that record have chunk_index 0..n-1 in
\* order and total_chunks = n, the chunks of the earlier records are as they
\* were, and no chunk of the list holds 'TBD', also when records share a pmid.
C19_TotalsBackfilled ==
    [][ a_idx' = a_idx + 1 =>
          LET n == Len(Emitted)
          IN  /\ n >= 1
              /\ \A k \in 1..n : /\ Emitted[k].chunk_index = k - 1
                                 /\ Emitted[k].total_chunks = n
                                 /\ Emitted[k].pmid = abstracts[a_idx].pmid
              /\ SubSeq(text_chunks', 1, Len(text_chunks)) = text_chunks
              /\ \A k \in 1..Len(text_chunks') : text_chunks'[k].total_chunks # TBD ]_vars

\* two records with the same pmid have been processed, each split in several
\* chunks of different counts
C19_Witness ==
    /\ stage = "process"
    /\ a_idx = 3
    /\ abstracts[1].pmid = abstracts[2].pmid
    /\ Len(ChunksOfRecord(abstracts[1])) = 2
    /\ Len(ChunksOfRecord(abstracts[2])) = 3
    /\ Len(text_chunks) = 5

\* the chunk text is the title, the blank line and then text that holds one of
\* the sentences of the abstract
TitleThenSentence(text, title, abstract_text) ==
    /\ StartsWith(text, title \o ParaSep)
    /\ \E j \in 1..Len(Sentences(abstract_text)) :
          LET sentence == Strip(Sentences(abstract_text)[j])
          IN  /\ sentence # <<>>
              /\ Contains(SubSeq(text, Len(title) + 3, Len(text)), sentence)

\* C20: for a record whose title plus abstract exceeds max_chunk_length, every
\* chunk emitted for it starts with the record's title and holds at least one
\* sentence of the abstract after it: no chunk is the title alone.
C20_TitleAndSentence ==
    [][ a_idx' = a_idx + 1 =>
          LET title == Strip(abstracts[a_idx].title)
              abstract_text == Strip(abstracts[a_idx].abstract)
          IN  Len(title \o ParaSep \o abstract_text) > max_chunk_length =>
                  \A k \in 1..Len(Emitted) :
                      TitleThenSentence(Emitted[k].text, title, abstract_text) ]_vars

\* the text of a sub-chunk without the title it starts with
Remainder(text, title) ==
    IF StartsWith(text, title) THEN Strip(SubSeq(text, Len(title) + 1, Len(text)))
    ELSE text

\* the sentences of the abstract, stripped, without the empty ones
RECURSIVE StrippedSentences(_)
StrippedSentences(sentences) ==
    IF sentences = <<>> THEN <<>>
    ELSE (IF Strip(Head(sentences)) # <<>> THEN <<Strip(Head(sentences))>> ELSE <<>>)
         \o StrippedSentences(Tail(sentences))

\* C30: for a record that create_text_chunks splits into several sub-chunks,
\* the sub-chunks without their title prefix, put one after the other in
\* chunk_index order, give back the sentences of the abstract unchanged and in
\* order: no sentence is lost or repeated and no character, such as an extra
\* period, is added to a sentence.
C30_SentencesRoundTrip ==
    [][ (a_idx' = a_idx + 1 /\ Len(Emitted) >= 2) =>
          LET title == Strip(abstracts[a_idx].title)
              abstract_text == Strip(abstracts[a_idx].abstract)
          IN  Join([k \in 1..Len(Emitted) |-> Remainder(Emitted[k].text, title)], <<" ">>)
                  = Join(StrippedSentences(Sentences(abstract_text)), <<" ">>) ]_vars

\* the part of C30 that the code keeps: every sentence of the abstract stands in
\* the sub-chunks once and in order, each followed by the period and the blank
\* the loop writes after it
SentencesKeptWithPeriod ==
    [][ (a_idx' = a_idx + 1 /\ Len(Emitted) >= 2) =>
          LET title == Strip(abstracts[a_idx].title)
              abstract_text == Strip(abstracts[a_idx].abstract)
              kept == StrippedSentences(Sentences(abstract_text))
          IN  Join([k \in 1..Len(Emitted) |-> Remainder(Emitted[k].text, title)], <<" ">>)
                  = Strip(Join([k \in 1..Len(kept) |-> kept[k] \o <<".">>], <<" ">>)) ]_vars

-----------------------------------------------------------------------------
(* Properties of the document builders *)

\* the lines of a rendered text
LinesOf(text) == Split(text, <<NL>>)

\* a label followed by an empty value
IsBareLabel(line) == EndsWith(line, <<":", " ">>)

\* C21: a builder renders an entity as newline-joined "Label: value" lines; a
\* field that is absent or empty produces no line at all, so no line of a
\* document of create_loinc_rag_documents is a label followed by an empty value.
C21_NoBareLabel ==
    build_pc = "documents" =>
        \A k \in 1..Len(documents) :
            \A n \in 1..Len(LinesOf(documents[k].text)) :
                ~IsBareLabel(LinesOf(documents[k].text)[n])

-----------------------------------------------------------------------------
(* Properties of MarkdownProcessor.create_semantic_chunks *)

\* the text begins with the header line of the section: its '#' signs, if any
\* are written, a blank and the section's text
RepeatsSectionHeader(chunk) ==
    LET marks == Len(chunk.text) - Len(SelectSeq(chunk.text, LAMBDA c : c # "#"))
    IN  \/ StartsWith(chunk.text, chunk.section)
        \/ \E n \in 1..marks :
              /\ \A k \in 1..n : chunk.text[k] = "#"
              /\ StartsWith(SubSeq(chunk.text, n + 1, Len(chunk.text)),
                            <<" ">> \o chunk.section)

\* C22: every chunk of MarkdownProcessor.create_semantic_chunks whose section
\* field is not null repeats that section's header at the start of its text,
\* whether it is a station chunk, a table chunk or a text chunk.
C22_SectionHeaderRepeated ==
    \A k \in 1..Len(md_chunks) :
        md_chunks[k].section # None => RepeatsSectionHeader(md_chunks[k])

=============================================================================
